---- MODULE Spec2Model ----
(***************************************************************************)
(* Model of the mahjong hand analysis core of astrbot_plugin_majsoul:      *)
(* PaiAnalyzer.parse_hand / analyze_hand and MahjongHelper                 *)
(* (src/modules/analysis/mahjong_utils.py).                                *)
(*                                                                         *)
(* A hand text is a sequence of one-character strings.  A count array is   *)
(* a function 0..33 -> Nat (index = suit * 9 + rank - 1, suits in the      *)
(* order man, pin, sou, honors).  The calls into the mahjong library       *)
(* (TilesConverter, Shanten, HandCalculator) are modelled by what the      *)
(* library computes at the call sites of mahjong_utils.py.                 *)
(***************************************************************************)
EXTENDS Integers, Sequences, FiniteSets, TLC

(***************************************************************************)
(* Program constants.                                                      *)
(***************************************************************************)
NumKinds == 34
CopiesPerKind == 4
SuitSize == 9
YakumanHan == 13

Kinds == 0 .. (NumKinds - 1)

\* Python's None: for an object, and for a string (an error message)
None == [none |-> TRUE]
NoneStr == "None"

Min(a, b) == IF a < b THEN a ELSE b
Max(a, b) == IF a > b THEN a ELSE b

(***************************************************************************)
(* Characters.  str.isdigit() and int() on the ASCII digits.               *)
(***************************************************************************)
DigitChars == {"0", "1", "2", "3", "4", "5", "6", "7", "8", "9"}

IntOf(ch) ==
  CASE ch = "0" -> 0 [] ch = "1" -> 1 [] ch = "2" -> 2 [] ch = "3" -> 3
    [] ch = "4" -> 4 [] ch = "5" -> 5 [] ch = "6" -> 6 [] ch = "7" -> 7
    [] ch = "8" -> 8 [] ch = "9" -> 9

Lower(ch) ==
  CASE ch = "M" -> "m" [] ch = "P" -> "p" [] ch = "S" -> "s" [] ch = "Z" -> "z"
    [] OTHER -> ch

\* parse_hand with a plausible slip: an unrecognised character drops the pending digits
ParseChar_ResetOnJunk(st, ch) ==
  IF ch \in DigitChars THEN [st EXCEPT !.cur = Append(@, ch)]
  ELSE IF Lower(ch) = "m" THEN [st EXCEPT !.man = @ \o st.cur, !.cur = <<>>]
  ELSE IF Lower(ch) = "p" THEN [st EXCEPT !.pin = @ \o st.cur, !.cur = <<>>]
  ELSE IF Lower(ch) = "s" THEN [st EXCEPT !.sou = @ \o st.cur, !.cur = <<>>]
  ELSE IF Lower(ch) = "z" THEN [st EXCEPT !.honors = @ \o st.cur, !.cur = <<>>]
  ELSE [st EXCEPT !.cur = <<>>]

\* Mutant of ParseChar: a marker assigns its group ("=") instead of appending ("+=").
ParseChar_Overwrite(st, ch) ==
  IF ch \in DigitChars THEN [st EXCEPT !.cur = Append(@, ch)]
  ELSE IF Lower(ch) = "m" THEN [st EXCEPT !.man = st.cur, !.cur = <<>>]
  ELSE IF Lower(ch) = "p" THEN [st EXCEPT !.pin = st.cur, !.cur = <<>>]
  ELSE IF Lower(ch) = "s" THEN [st EXCEPT !.sou = st.cur, !.cur = <<>>]
  ELSE IF Lower(ch) = "z" THEN [st EXCEPT !.honors = st.cur, !.cur = <<>>]
  ELSE st

(***************************************************************************)
(* PaiAnalyzer.parse_hand: digits accumulate in current_numbers and are    *)
(* flushed to the group of the next suit marker; other characters are      *)
(* skipped.  st = [man, pin, sou, honors, cur].                            *)
(***************************************************************************)
ParseChar(st, ch) ==
  IF ch \in DigitChars THEN [st EXCEPT !.cur = Append(@, ch)]
  ELSE IF ch \in {"m", "M", "p", "P", "s", "S"} THEN
    LET flushed ==
          IF Lower(ch) = "m" THEN [st EXCEPT !.man = @ \o st.cur]
          ELSE IF Lower(ch) = "p" THEN [st EXCEPT !.pin = @ \o st.cur]
          ELSE IF Lower(ch) = "s" THEN [st EXCEPT !.sou = @ \o st.cur]
          ELSE st
    IN [flushed EXCEPT !.cur = <<>>]
  ELSE IF ch \in {"z", "Z"} THEN
    [st EXCEPT !.honors = @ \o st.cur, !.cur = <<>>]
  ELSE st

RECURSIVE ParseFrom(_, _, _)
ParseFrom(text, i, st) ==
  IF i > Len(text) THEN st
  ELSE ParseFrom(text, i + 1, ParseChar(st, text[i]))

parse_hand(text) ==
  LET st == ParseFrom(text, 1,
                      [man |-> <<>>, pin |-> <<>>, sou |-> <<>>,
                       honors |-> <<>>, cur |-> <<>>])
  IN [man |-> st.man, pin |-> st.pin, sou |-> st.sou, honors |-> st.honors]

(***************************************************************************)
(* TilesConverter.string_to_136_array (called at convert_tiles): every     *)
(* digit d of a group becomes tile offset + (d - 1) * 4; when that tile is *)
(* already in the group's data, the count of earlier equal digits is added *)
(* (a fifth copy of a kind therefore lands on the first tile of the next   *)
(* kind).                                                                  *)
(***************************************************************************)
CountIn(seq, x) == Cardinality({k \in 1 .. Len(seq) : seq[k] = x})

InSeq(seq, x) == \E k \in 1 .. Len(seq) : seq[k] = x

RECURSIVE SplitFrom(_, _, _, _, _)
SplitFrom(str, offset, i, data, temp) ==
  IF i > Len(str) THEN data
  ELSE
    LET tile == offset + (IntOf(str[i]) - 1) * CopiesPerKind
        new_tile == IF InSeq(data, tile) THEN tile + CountIn(temp, tile) ELSE tile
    IN SplitFrom(str, offset, i + 1, Append(data, new_tile), Append(temp, tile))

SplitString(str, offset) == SplitFrom(str, offset, 1, <<>>, <<>>)

string_to_136_array(hc) ==
  SplitString(hc.man, 0) \o SplitString(hc.pin, SuitSize * CopiesPerKind)
    \o SplitString(hc.sou, 2 * SuitSize * CopiesPerKind) \o SplitString(hc.honors, 3 * SuitSize * CopiesPerKind)

(***************************************************************************)
(* TilesConverter.to_34_array: results[tile // 4] += 1 on a list of 34     *)
(* zeros.  Python indexes a negative position from the end; a position     *)
(* outside -34..33 raises IndexError.                                      *)
(***************************************************************************)
Index34(tile) ==
  LET q == tile \div CopiesPerKind
  IN IF q < 0 THEN q + NumKinds ELSE q

To34Raises(tiles) ==
  \E k \in 1 .. Len(tiles) : Index34(tiles[k]) \notin Kinds

to_34_array(tiles) ==
  [t \in Kinds |-> Cardinality({k \in 1 .. Len(tiles) : Index34(tiles[k]) = t})]

RECURSIVE SumFrom(_, _)
SumFrom(c, t) == IF t >= NumKinds THEN 0 ELSE c[t] + SumFrom(c, t + 1)

Sum34(c) == SumFrom(c, 0)

Inc(c, t) == [c EXCEPT ![t] = @ + 1]
Dec(c, t) == [c EXCEPT ![t] = @ - 1]

(***************************************************************************)
(* Shanten.calculate_shanten of the mahjong library (called at             *)
(* MahjongHelper.calculate_shanten / calculate_ukeire): the minimum of the *)
(* regular-hand, seven-pairs and thirteen-orphans shanten numbers.         *)
(*                                                                         *)
(* Regular hand: a decomposition is summarised as <<m, t, h>>: melds,      *)
(* partial melds (pairs included) and whether a head pair is set aside;    *)
(* its shanten is 8 - 2m - min(t, 4 - m) - h.  A kind gives at most one    *)
(* same-kind block (triplet or pair).                                      *)
(***************************************************************************)
Shift(S, dm, dt, dh) ==
  {<<Min(CopiesPerKind, x[1] + dm), Min(CopiesPerKind, x[2] + dt), x[3] + dh>> :
     x \in {y \in S : y[3] + dh <= 1}}

Combine(A, B) ==
  UNION {Shift(A, b[1], b[2], b[3]) : b \in B}

RECURSIVE SuitScan(_, _, _, _)
SuitScan(c, base, i, sameUsed) ==
  IF i >= SuitSize THEN {<<0, 0, 0>>}
  ELSE IF c[base + i] = 0 THEN SuitScan(c, base, i + 1, FALSE)
  ELSE
    LET k == base + i
        n == c[k]
        has1 == i + 1 < SuitSize /\ c[k + 1] > 0
        has2 == i + 2 < SuitSize /\ c[k + 2] > 0
        triplet == IF n >= 3 /\ ~sameUsed
                   THEN Shift(SuitScan([c EXCEPT ![k] = @ - 3], base, i, TRUE), 1, 0, 0)
                   ELSE {}
        pairs == IF n >= 2 /\ ~sameUsed
                 THEN LET rest == SuitScan([c EXCEPT ![k] = @ - 2], base, i, TRUE)
                      IN Shift(rest, 0, 1, 0) \cup Shift(rest, 0, 0, 1)
                 ELSE {}
        run == IF has1 /\ has2
               THEN Shift(SuitScan([c EXCEPT ![k] = @ - 1, ![k + 1] = @ - 1,
                                              ![k + 2] = @ - 1], base, i, sameUsed),
                          1, 0, 0)
               ELSE {}
        adjacent == IF has1
                    THEN Shift(SuitScan([c EXCEPT ![k] = @ - 1, ![k + 1] = @ - 1],
                                        base, i, sameUsed), 0, 1, 0)
                    ELSE {}
        gap == IF has2
               THEN Shift(SuitScan([c EXCEPT ![k] = @ - 1, ![k + 2] = @ - 1],
                                   base, i, sameUsed), 0, 1, 0)
               ELSE {}
        isolated == SuitScan([c EXCEPT ![k] = 0], base, i + 1, FALSE)
    IN triplet \cup pairs \cup run \cup adjacent \cup gap \cup isolated

HonorBlocks(n) ==
  {<<0, 0, 0>>}
    \cup (IF n >= 3 THEN {<<1, 0, 0>>} ELSE {})
    \cup (IF n >= 2 THEN {<<0, 1, 0>>, <<0, 0, 1>>} ELSE {})

RECURSIVE HonorScan(_, _)
HonorScan(c, k) ==
  IF k >= NumKinds THEN {<<0, 0, 0>>}
  ELSE Combine(HonorBlocks(c[k]), HonorScan(c, k + 1))

BlockShanten(x) == 8 - 2 * x[1] - Min(x[2], CopiesPerKind - x[1]) - x[3]

SetMin(S) == CHOOSE v \in S : \A w \in S : v <= w

calculate_shanten_for_regular_hand(c) ==
  LET all == Combine(Combine(SuitScan(c, 0, 0, FALSE), SuitScan(c, SuitSize, 0, FALSE)),
                     Combine(SuitScan(c, 2 * SuitSize, 0, FALSE),
                             HonorScan(c, 3 * SuitSize)))
  IN SetMin({BlockShanten(x) : x \in all})

calculate_shanten_for_chiitoitsu_hand(c) ==
  LET pairs == Cardinality({t \in Kinds : c[t] >= 2})
      kinds == Cardinality({t \in Kinds : c[t] >= 1})
  IN IF pairs = 7 THEN -1
     ELSE 6 - pairs + (IF kinds < 7 THEN 7 - kinds ELSE 0)

TerminalHonorKinds ==
  {0, SuitSize - 1, SuitSize, 2 * SuitSize - 1, 2 * SuitSize, 3 * SuitSize - 1}
    \cup (3 * SuitSize .. NumKinds - 1)

calculate_shanten_for_kokushi_hand(c) ==
  LET completed == Cardinality({t \in TerminalHonorKinds : c[t] >= 2})
      terminals == Cardinality({t \in TerminalHonorKinds : c[t] # 0})
  IN 13 - terminals - (IF completed > 0 THEN 1 ELSE 0)

\* Mutant of Shanten: the seven-pairs count is left out.
Shanten_NoChiitoitsu(c) ==
  Min(calculate_shanten_for_regular_hand(c), calculate_shanten_for_kokushi_hand(c))

Shanten(c) ==
  Min(calculate_shanten_for_regular_hand(c),
      Min(calculate_shanten_for_chiitoitsu_hand(c),
          calculate_shanten_for_kokushi_hand(c)))

(***************************************************************************)
(* MahjongHelper.calculate_shanten: the library call inside try/except.    *)
(* On more than 14 tiles the library raises ValueError (the except clause  *)
(* then gives shanten 0, success false) or, in its older releases, returns *)
(* -2: both outcomes are kept.  Up to 14 tiles the outcome is one.         *)
(***************************************************************************)
ShantenRaises(c) == Sum34(c) > 14

\* at most 14 tiles: the call returns
calculate_shanten(c) == [shanten |-> Shanten(c), success |-> TRUE, error |-> NoneStr]

ShantenOutcomes(c) ==
  IF ShantenRaises(c)
  THEN {[shanten |-> 0, success |-> FALSE, error |-> "too_many_tiles"],
        [shanten |-> -2, success |-> TRUE, error |-> NoneStr]}
  ELSE {calculate_shanten(c)}

(***************************************************************************)
(* WaitingTile and the tile name used by UkeireOption.                     *)
(***************************************************************************)
SuitLetter(t) ==
  CASE t \div SuitSize = 0 -> "m" [] t \div SuitSize = 1 -> "p"
    [] t \div SuitSize = 2 -> "s" [] OTHER -> "z"

TileStr(t) == <<(t % SuitSize) + 1, SuitLetter(t)>>

WaitingTile(t, count) ==
  [tile_index |-> t, count |-> count, tile_str |-> TileStr(t)]

(***************************************************************************)
(* Inputs: hand texts.  A text is one of the first NumBases base texts,    *)
(* optionally followed by one more tile "<digit><marker>" whose digit is   *)
(* at most MaxExtraRank.                                                   *)
(***************************************************************************)
NumBases == 7
MaxExtraRank == 1

BaseHands == <<
  <<"4", "5", "6", "p", "1", "2", "3", "7", "8", "9", "s", "1", "1", "2", "2", "z">>,
  <<"1", "1", "1", "1", "M", "2", "3", "m", " ", "4", "5", "6", "p", "7", "8", "9", "S", "1", "z">>,
  <<"1", "1", "1", "1", "1", "m", "2", "2", "2", "2", "m", "4", "5", "6", "p">>,
  <<"1", "2", "3", "m", "4", "5", "6", "p", "7", "8", "9", "s", "1", "1", "2", "z">>,
  <<"1", "3", "5", "m", "4", "5", "6", "6", "p", "7", "8", "9", "s", "1", "1", "2", "z">>,
  <<"1", "2", "3", "m", "4", "5", "6", "p", "7", "8", "9", "s", "1", "1", "8", "9", "z">>,
  <<"1", "2", "3", "m", "4", "5", "6", "p", "7", "8", "9", "s", "1", "1", "2", "2", "2", "z">>,
  <<"1", "2", ",", "3", "m", "4", "5", "6", "p", "7", "8", "9", "s", "1", "1", "z", "5">>>>

ExtraTiles ==
  {<<>>} \cup {<<d, k>> : d \in {x \in DigitChars : IntOf(x) <= MaxExtraRank},
                          k \in {"m", "p", "s", "z"}}

HandTexts ==
  {BaseHands[b] \o e : b \in 1 .. Min(NumBases, Len(BaseHands)), e \in ExtraTiles}

(***************************************************************************)
(* The scoring dependency HandCalculator.estimate_hand_value, seen from    *)
(* MahjongHelper.estimate_hand_value: it raises, or returns a response     *)
(* with an error (a hand without yaku is reported as the error "no_yaku"), *)
(* or returns han, fu and a non-empty yaku list.                           *)
(***************************************************************************)
MaxHan == 13

DepYaku ==
  {<<[name |-> "Tanyao", han_closed |-> 1, han_open |-> 1]>>,
   <<[name |-> "Pinfu", han_closed |-> 1, han_open |-> 0],
     [name |-> "Honitsu", han_closed |-> 3, han_open |-> 2]>>}

DepOutcomes ==
  {[kind |-> "raise", error |-> "exception", han |-> 0, fu |-> 0,
    yaku |-> <<>>, is_open_hand |-> FALSE]}
    \cup {[kind |-> "error", error |-> e, han |-> 0, fu |-> 0,
           yaku |-> <<>>, is_open_hand |-> FALSE] :
            e \in {"no_yaku", "hand_not_winning"}}
    \cup {[kind |-> "ok", error |-> NoneStr, han |-> h, fu |-> 30,
           yaku |-> y, is_open_hand |-> FALSE] : h \in 1 .. MaxHan, y \in DepYaku}

(***************************************************************************)
(* MahjongHelper.estimate_hand_value on the dependency's outcome.          *)
(***************************************************************************)
(***************************************************************************)
(* YAKU_NAME_MAP: the labels of the yaku identifiers.  A label is written  *)
(* with its characters as \uXXXX escapes.                                  *)
(***************************************************************************)
YAKU_NAME_MAP ==
  ("Tsumo" :> "\\u81ea\\u6478")
    @@ ("Riichi" :> "\\u7acb\\u76f4")
    @@ ("Ippatsu" :> "\\u4e00\\u53d1")
    @@ ("Chankan" :> "\\u67aa\\u6760")
    @@ ("Rinshan" :> "\\u5cad\\u4e0a\\u5f00\\u82b1")
    @@ ("Haitei" :> "\\u6d77\\u5e95\\u635e\\u6708")
    @@ ("Houtei" :> "\\u6cb3\\u5e95\\u635e\\u9c7c")
    @@ ("Pinfu" :> "\\u5e73\\u548c")
    @@ ("Tanyao" :> "\\u65ad\\u5e7a\\u4e5d")
    @@ ("Iipeiko" :> "\\u4e00\\u676f\\u53e3")
    @@ ("Haku" :> "\\u767d")
    @@ ("Hatsu" :> "\\u53d1")
    @@ ("Chun" :> "\\u4e2d")
    @@ ("Yakuhai (wind of place)" :> "\\u81ea\\u98ce")
    @@ ("Yakuhai (wind of round)" :> "\\u573a\\u98ce")
    @@ ("YakuhaiEast" :> "\\u4e1c")
    @@ ("YakuhaiSouth" :> "\\u5357")
    @@ ("YakuhaiWest" :> "\\u897f")
    @@ ("YakuhaiNorth" :> "\\u5317")
    @@ ("Sanshoku" :> "\\u4e09\\u8272\\u540c\\u987a")
    @@ ("Ittsu" :> "\\u4e00\\u6c14\\u901a\\u8d2f")
    @@ ("Chiitoitsu" :> "\\u4e03\\u5bf9\\u5b50")
    @@ ("Toitoi" :> "\\u5bf9\\u5bf9\\u548c")
    @@ ("Sanankou" :> "\\u4e09\\u6697\\u523b")
    @@ ("SanKantsu" :> "\\u4e09\\u6760\\u5b50")
    @@ ("Sanshoku Doukou" :> "\\u4e09\\u8272\\u540c\\u523b")
    @@ ("Honitsu" :> "\\u6df7\\u4e00\\u8272")
    @@ ("Junchan" :> "\\u7eaf\\u5168\\u5e26\\u5e7a\\u4e5d")
    @@ ("Ryanpeikou" :> "\\u4e24\\u676f\\u53e3")
    @@ ("Chinitsu" :> "\\u6e05\\u4e00\\u8272")
    @@ ("Renhou" :> "\\u4eba\\u548c")
    @@ ("Dora" :> "\\u5b9d\\u724c")
    @@ ("Aka Dora" :> "\\u8d64\\u5b9d\\u724c")
    @@ ("Honroto" :> "\\u6df7\\u8001\\u5934")
    @@ ("Shosangen" :> "\\u5c0f\\u4e09\\u5143")
    @@ ("Open Riichi" :> "\\u5f00\\u7acb\\u76f4")
    @@ ("Daburu Riichi" :> "\\u53cc\\u7acb\\u76f4")
    @@ ("Daburu Open Riichi" :> "\\u5f00\\u53cc\\u7acb\\u76f4")
    @@ ("Nagashi Mangan" :> "\\u6d41\\u5c40\\u6ee1\\u8d2f")
    @@ ("Chantai" :> "\\u6df7\\u5168\\u5e26\\u5e7a\\u4e5d")
    @@ ("Tenhou" :> "\\u5929\\u548c")
    @@ ("Chiihou" :> "\\u5730\\u548c")
    @@ ("Dai Suushii" :> "\\u5927\\u56db\\u559c")
    @@ ("Shousuushii" :> "\\u5c0f\\u56db\\u559c")
    @@ ("Daisangen" :> "\\u5927\\u4e09\\u5143")
    @@ ("Suu Ankou" :> "\\u56db\\u6697\\u523b")
    @@ ("Suu Ankou Tanki" :> "\\u56db\\u6697\\u523b\\u5355\\u9a91")
    @@ ("Suu Kantsu" :> "\\u56db\\u6760\\u5b50")
    @@ ("Ryuuiisou" :> "\\u7eff\\u4e00\\u8272")
    @@ ("Chinroutou" :> "\\u6e05\\u8001\\u5934")
    @@ ("Chuuren Poutou" :> "\\u4e5d\\u83b2\\u5b9d\\u706f")
    @@ ("Daburu Chuuren Poutou" :> "\\u7eaf\\u6b63\\u4e5d\\u83b2\\u5b9d\\u706f")
    @@ ("Kokush Musou" :> "\\u56fd\\u58eb\\u65e0\\u53cc")
    @@ ("Kokushi Musou Juusanmen Matchi" :> "\\u56fd\\u58eb\\u65e0\\u53cc\\u5341\\u4e09\\u9762")
    @@ ("Tsuu Iisou" :> "\\u5b57\\u4e00\\u8272")
    @@ ("Daichisei" :> "\\u5927\\u4e03\\u661f")
    @@ ("Daisharin" :> "\\u5927\\u8f66\\u8f6e")
    @@ ("Daisuurin" :> "\\u5927\\u6570\\u90bb")
    @@ ("Daichikurin" :> "\\u5927\\u7af9\\u6797")
    @@ ("Paarenchan" :> "\\u516b\\u8fde\\u5e84")
    @@ ("Renhou (yakuman)" :> "\\u4eba\\u548c\\u5f79\\u6ee1")
    @@ ("Sashikomi" :> "\\u6368\\u3066\\u8fbc\\u307f")

\* Mutant of YAKU_NAME_MAP_get: a fixed text for an identifier not in the table.
YAKU_NAME_MAP_get_NoFallback(name) ==
  IF name \in DOMAIN YAKU_NAME_MAP THEN YAKU_NAME_MAP[name] ELSE "\\u672a\\u77e5"

\* YAKU_NAME_MAP.get(name, name)
YAKU_NAME_MAP_get(name) ==
  IF name \in DOMAIN YAKU_NAME_MAP THEN YAKU_NAME_MAP[name] ELSE name

YakuItem(y, is_open_hand) ==
  [name |-> y.name, han |-> IF ~is_open_hand THEN y.han_closed ELSE y.han_open,
   chinese_name |-> YAKU_NAME_MAP_get(y.name)]

HandValueResult(success, error, han, fu, yaku, is_yakuman) ==
  [success |-> success, error |-> error, han |-> han, fu |-> fu,
   yaku |-> yaku, is_yakuman |-> is_yakuman]

\* Mutant of estimate_hand_value: result.error is not looked at.
estimate_hand_value_IgnoreError(out) ==
  IF out.kind = "raise"
  THEN HandValueResult(FALSE, out.error, 0, 0, <<>>, FALSE)
  ELSE HandValueResult(TRUE, NoneStr, out.han, out.fu,
                       [i \in 1 .. Len(out.yaku) |-> YakuItem(out.yaku[i], out.is_open_hand)],
                       out.han >= YakumanHan)

\* Mutant of estimate_hand_value: "result.han > 13" instead of ">= 13".
estimate_hand_value_YakumanAbove(out) ==
  IF out.kind = "raise"
  THEN HandValueResult(FALSE, out.error, 0, 0, <<>>, FALSE)
  ELSE IF out.error # NoneStr
  THEN HandValueResult(FALSE, out.error, 0, 0, <<>>, FALSE)
  ELSE HandValueResult(TRUE, NoneStr, out.han, out.fu,
                       [i \in 1 .. Len(out.yaku) |-> YakuItem(out.yaku[i], out.is_open_hand)],
                       out.han > YakumanHan)

estimate_hand_value(out) ==
  IF out.kind = "raise"
  THEN HandValueResult(FALSE, out.error, 0, 0, <<>>, FALSE)
  ELSE IF out.error # NoneStr
  THEN HandValueResult(FALSE, out.error, 0, 0, <<>>, FALSE)
  ELSE HandValueResult(TRUE, NoneStr, out.han, out.fu,
                       [i \in 1 .. Len(out.yaku) |-> YakuItem(out.yaku[i], out.is_open_hand)],
                       out.han >= YakumanHan)

(***************************************************************************)
(* analyze_hand: the result object and the dispatch.                       *)
(***************************************************************************)
\* Mutant of HandAnalysisResult: the result is built without the shanten.
HandAnalysisResult_NoShanten(text, total, hc, sr) ==
  [success |-> TRUE, error |-> NoneStr, hand_str |-> text, total_tiles |-> total,
   hand_components |-> hc, shanten |-> None, hand_value |-> None, ukeire |-> None,
   waiting_tiles |-> <<>>]

HandAnalysisResult(text, total, hc, sr) ==
  [success |-> TRUE, error |-> NoneStr, hand_str |-> text, total_tiles |-> total,
   hand_components |-> hc, shanten |-> sr, hand_value |-> None, ukeire |-> None,
   waiting_tiles |-> <<>>]

FailedResult(text) ==
  [success |-> FALSE, error |-> "analysis_failed", hand_str |-> text,
   total_tiles |-> 0, hand_components |-> None, shanten |-> None,
   hand_value |-> None, ukeire |-> None, waiting_tiles |-> <<>>]

\* Mutant of Branch: "elif total_tiles <= 13" instead of "== 13".
Branch_LooseCount(total, sh) ==
  IF total = 14 THEN (IF sh = -1 THEN "win" ELSE "ukeire")
  ELSE IF total <= 13 THEN (IF sh = 0 THEN "waits" ELSE "advance")
  ELSE "error"

\* Mutant of Branch: a 14-tile hand counts as won at shanten <= 0.
Branch_WinAtTenpai(total, sh) ==
  IF total = 14 THEN (IF sh <= 0 THEN "win" ELSE "ukeire")
  ELSE IF total = 13 THEN (IF sh = 0 THEN "waits" ELSE "advance")
  ELSE "error"

Branch(total, sh) ==
  IF total = 14 THEN (IF sh = -1 THEN "win" ELSE "ukeire")
  ELSE IF total = 13 THEN (IF sh = 0 THEN "waits" ELSE "advance")
  ELSE "error"

Last(str) == str[Len(str)]

\* Mutant of SelectWinTile: the first digit of the group instead of the last.
SelectWinTile_First(hc) ==
  IF hc.man # <<>> THEN [type |-> "man", value |-> Head(hc.man)]
  ELSE IF hc.pin # <<>> THEN [type |-> "pin", value |-> Head(hc.pin)]
  ELSE IF hc.sou # <<>> THEN [type |-> "sou", value |-> Head(hc.sou)]
  ELSE IF hc.honors # <<>> THEN [type |-> "honors", value |-> Head(hc.honors)]
  ELSE None

SelectWinTile(hc) ==
  IF hc.man # <<>> THEN [type |-> "man", value |-> Last(hc.man)]
  ELSE IF hc.pin # <<>> THEN [type |-> "pin", value |-> Last(hc.pin)]
  ELSE IF hc.sou # <<>> THEN [type |-> "sou", value |-> Last(hc.sou)]
  ELSE IF hc.honors # <<>> THEN [type |-> "honors", value |-> Last(hc.honors)]
  ELSE None

\* win_tile = self.convert_tiles(**{win_tile_type: win_tile_value})[0]
WinTile136(w) ==
  LET empty == [man |-> <<>>, pin |-> <<>>, sou |-> <<>>, honors |-> <<>>]
  IN string_to_136_array([empty EXCEPT ![w.type] = <<w.value>>])[1]

(***************************************************************************)
(* MahjongHelper.calculate_ukeire: one pass of the inner loop (try_tile),  *)
(* the option built after the inner loop, and the final sort.              *)
(***************************************************************************)
\* Mutant of UkeireTryStep: original_count read after the increment, without - 1.
UkeireTryStep_CountAfterDraw(c, current_shanten, discard_pos, try_tile, ukeire, waiting) ==
  IF c[try_tile] >= CopiesPerKind
  THEN [tiles_34 |-> c, ukeire |-> ukeire, waiting_tiles |-> waiting]
  ELSE
    LET c1 == Inc(c, try_tile)
        new_shanten == Shanten(c1)
        original_count == c1[try_tile] + (IF try_tile = discard_pos THEN 1 ELSE 0)
        remaining == CopiesPerKind - original_count
        hit == new_shanten < current_shanten /\ remaining > 0
    IN [tiles_34 |-> Dec(c1, try_tile),
        ukeire |-> IF hit THEN ukeire + remaining ELSE ukeire,
        waiting_tiles |-> IF hit THEN Append(waiting, <<try_tile, remaining>>)
                          ELSE waiting]

UkeireTryStep(c, current_shanten, discard_pos, try_tile, ukeire, waiting) ==
  IF c[try_tile] >= CopiesPerKind
  THEN [tiles_34 |-> c, ukeire |-> ukeire, waiting_tiles |-> waiting]
  ELSE
    LET c1 == Inc(c, try_tile)
        new_shanten == Shanten(c1)
        original_count == (c1[try_tile] - 1) + (IF try_tile = discard_pos THEN 1 ELSE 0)
        remaining == CopiesPerKind - original_count
        hit == new_shanten < current_shanten /\ remaining > 0
    IN [tiles_34 |-> Dec(c1, try_tile),
        ukeire |-> IF hit THEN ukeire + remaining ELSE ukeire,
        waiting_tiles |-> IF hit THEN Append(waiting, <<try_tile, remaining>>)
                          ELSE waiting]

UkeireOption(discard_pos, ukeire, waiting) ==
  [tile_to_discard |-> TileStr(discard_pos), tile_index |-> discard_pos,
   ukeire |-> ukeire,
   waiting |-> [i \in 1 .. Len(waiting) |-> WaitingTile(waiting[i][1], waiting[i][2])]]

AppendOption(results, discard_pos, ukeire, waiting) ==
  IF ukeire > 0 THEN Append(results, UkeireOption(discard_pos, ukeire, waiting))
  ELSE results

\* key = (-x.ukeire, x.tile_index)
KeyLess(a, b) ==
  \/ a.ukeire > b.ukeire
  \/ a.ukeire = b.ukeire /\ a.tile_index < b.tile_index

RECURSIVE InsertSorted(_, _)
InsertSorted(sorted, x) ==
  IF sorted = <<>> THEN <<x>>
  ELSE IF KeyLess(x, Head(sorted)) THEN <<x>> \o sorted
  ELSE <<Head(sorted)>> \o InsertSorted(Tail(sorted), x)

RECURSIVE SortFrom(_, _, _)
SortFrom(opts, i, acc) ==
  IF i > Len(opts) THEN acc ELSE SortFrom(opts, i + 1, InsertSorted(acc, opts[i]))

\* Mutant of SortOptions: the list is left in loop order.
SortOptions_Unsorted(opts) == opts

SortOptions(opts) == SortFrom(opts, 1, <<>>)

UkeireResult(options, current_shanten) ==
  [success |-> TRUE, error |-> NoneStr, options |-> options,
   current_shanten |-> current_shanten]

(***************************************************************************)
(* analyze_hand, 13 tiles: one pass of the waits loop (shanten 0) and of   *)
(* the best-advance loop (shanten > 0).                                    *)
(***************************************************************************)
\* Mutant of WaitsTryStep: a found wait leaves the loop pass before the decrement.
WaitsTryStep_NoUndoOnHit(c, original, try_tile, waiting) ==
  IF original[try_tile] >= CopiesPerKind
  THEN [tiles_34 |-> c, waiting_tiles |-> waiting]
  ELSE
    LET c1 == Inc(c, try_tile)
        remaining == CopiesPerKind - original[try_tile]
        hit == calculate_shanten(c1).shanten = -1 /\ remaining > 0
    IN IF hit
       THEN [tiles_34 |-> c1,
             waiting_tiles |-> Append(waiting, WaitingTile(try_tile, remaining))]
       ELSE [tiles_34 |-> Dec(c1, try_tile), waiting_tiles |-> waiting]

\* Mutant of WaitsTryStep: remaining read from the array after the increment.
WaitsTryStep_CountAfterDraw(c, original, try_tile, waiting) ==
  IF original[try_tile] >= CopiesPerKind
  THEN [tiles_34 |-> c, waiting_tiles |-> waiting]
  ELSE
    LET c1 == Inc(c, try_tile)
        remaining == CopiesPerKind - c1[try_tile]
        hit == calculate_shanten(c1).shanten = -1 /\ remaining > 0
    IN [tiles_34 |-> Dec(c1, try_tile),
        waiting_tiles |-> IF hit THEN Append(waiting, WaitingTile(try_tile, remaining))
                          ELSE waiting]

WaitsTryStep(c, original, try_tile, waiting) ==
  IF original[try_tile] >= CopiesPerKind
  THEN [tiles_34 |-> c, waiting_tiles |-> waiting]
  ELSE
    LET c1 == Inc(c, try_tile)
        remaining == CopiesPerKind - original[try_tile]
        hit == calculate_shanten(c1).shanten = -1 /\ remaining > 0
    IN [tiles_34 |-> Dec(c1, try_tile),
        waiting_tiles |-> IF hit THEN Append(waiting, WaitingTile(try_tile, remaining))
                          ELSE waiting]

\* Mutant of AdvanceTryStep: a strictly better tile is appended, the list not reset.
AdvanceTryStep_NoReset(c, original, try_tile, best, best_sh) ==
  IF original[try_tile] >= CopiesPerKind
  THEN [tiles_34 |-> c, best_tiles |-> best, best_shanten |-> best_sh]
  ELSE
    LET c1 == Inc(c, try_tile)
        new_shanten == calculate_shanten(c1).shanten
        remaining == CopiesPerKind - original[try_tile]
    IN IF new_shanten <= best_sh
       THEN [tiles_34 |-> Dec(c1, try_tile),
             best_tiles |-> IF remaining > 0
                            THEN Append(best, WaitingTile(try_tile, remaining))
                            ELSE best,
             best_shanten |-> new_shanten]
       ELSE [tiles_34 |-> Dec(c1, try_tile), best_tiles |-> best,
             best_shanten |-> best_sh]

AdvanceTryStep(c, original, try_tile, best, best_sh) ==
  IF original[try_tile] >= CopiesPerKind
  THEN [tiles_34 |-> c, best_tiles |-> best, best_shanten |-> best_sh]
  ELSE
    LET c1 == Inc(c, try_tile)
        new_shanten == calculate_shanten(c1).shanten
        remaining == CopiesPerKind - original[try_tile]
    IN IF new_shanten < best_sh
       THEN [tiles_34 |-> Dec(c1, try_tile),
             best_tiles |-> IF remaining > 0 THEN <<WaitingTile(try_tile, remaining)>>
                            ELSE best,
             best_shanten |-> new_shanten]
       ELSE IF new_shanten = best_sh
       THEN [tiles_34 |-> Dec(c1, try_tile),
             best_tiles |-> IF remaining > 0
                            THEN Append(best, WaitingTile(try_tile, remaining))
                            ELSE best,
             best_shanten |-> best_sh]
       ELSE [tiles_34 |-> Dec(c1, try_tile), best_tiles |-> best,
             best_shanten |-> best_sh]

(***************************************************************************)
(* analyze_hand, 14 tiles and shanten -1: result.hand_value is what        *)
(* MahjongHelper.estimate_hand_value returns; its try/except keeps a raise *)
(* of the dependency from reaching analyze_hand.                           *)
(***************************************************************************)
\* Mutant of SetHandValue: the dependency's raise reaches analyze_hand's except.
SetHandValue_Propagate(res, text, out) ==
  IF out.kind = "raise" THEN FailedResult(text)
  ELSE [res EXCEPT !.hand_value = estimate_hand_value(out)]

SetHandValue(res, text, out) ==
  [res EXCEPT !.hand_value = estimate_hand_value(out)]

(***************************************************************************)
(* The to_dict methods.  A dictionary is a record; its keys are its DOMAIN. *)
(* A failed MahjongResult gives success and error only, and the subclasses  *)
(* add their keys only when success holds.                                  *)
(***************************************************************************)
MahjongResult_to_dict(r) ==
  IF r.success THEN [success |-> TRUE] ELSE [success |-> FALSE, error |-> r.error]

ShantenResult_to_dict(r) ==
  IF r.success THEN [shanten |-> r.shanten] @@ MahjongResult_to_dict(r)
  ELSE MahjongResult_to_dict(r)

UkeireResult_to_dict(r) ==
  IF r.success
  THEN [current_shanten |-> r.current_shanten, options |-> r.options]
         @@ MahjongResult_to_dict(r)
  ELSE MahjongResult_to_dict(r)

HandValueResult_to_dict(r) ==
  IF r.success
  THEN [han |-> r.han, fu |-> r.fu, yaku |-> r.yaku, is_yakuman |-> r.is_yakuman]
         @@ MahjongResult_to_dict(r)
  ELSE MahjongResult_to_dict(r)

\* Mutant of HandAnalysisResult_to_dict: a sub-result that is None gets no key.
HandAnalysisResult_to_dict_SkipNone(r) ==
  IF r.success
  THEN [hand_str |-> r.hand_str, total_tiles |-> r.total_tiles,
        waiting_tiles |-> r.waiting_tiles]
         @@ (IF r.hand_components # None
             THEN [hand_components |-> r.hand_components] ELSE <<>>)
         @@ (IF r.shanten # None
             THEN [shanten |-> ShantenResult_to_dict(r.shanten)] ELSE <<>>)
         @@ (IF r.hand_value # None
             THEN [hand_value |-> HandValueResult_to_dict(r.hand_value)] ELSE <<>>)
         @@ (IF r.ukeire # None
             THEN [ukeire |-> UkeireResult_to_dict(r.ukeire)] ELSE <<>>)
         @@ MahjongResult_to_dict(r)
  ELSE MahjongResult_to_dict(r)

HandAnalysisResult_to_dict(r) ==
  IF r.success
  THEN [hand_str |-> r.hand_str,
        total_tiles |-> r.total_tiles,
        hand_components |-> r.hand_components,
        shanten |-> IF r.shanten # None THEN ShantenResult_to_dict(r.shanten) ELSE None,
        hand_value |-> IF r.hand_value # None
                       THEN HandValueResult_to_dict(r.hand_value) ELSE None,
        ukeire |-> IF r.ukeire # None THEN UkeireResult_to_dict(r.ukeire) ELSE None,
        waiting_tiles |-> r.waiting_tiles]
         @@ MahjongResult_to_dict(r)
  ELSE MahjongResult_to_dict(r)

(***************************************************************************)
(* MahjongWordle.  A tile is the two-character string digit + suit, kept   *)
(* as <<digit, suit>>; a dictionary is a function on its keys, the empty   *)
(* one being <<>>; a missing group id is NoneStr.                          *)
(***************************************************************************)
\* a key per user, whatever the group
_get_game_key_PerUser(user_id, group_id) == <<"private", user_id>>

_get_game_key(user_id, group_id) ==
  IF group_id # NoneStr THEN <<"group", group_id>> ELSE <<"private", user_id>>

Registered(games, key) == key \in DOMAIN games

Put(games, key, state) == [k \in DOMAIN games \cup {key} |-> IF k = key THEN state ELSE games[k]]

Del(games, key) == [k \in DOMAIN games \ {key} |-> games[k]]

\* _parse_hand_tiles: characters accumulate until one of "mpsz" turns them into tiles
RECURSIVE ParseTilesFrom(_, _, _, _)
ParseTilesFrom(str, i, current_numbers, tiles) ==
  IF i > Len(str) THEN tiles
  ELSE IF str[i] \in {"m", "p", "s", "z"}
  THEN ParseTilesFrom(str, i + 1, <<>>,
                      tiles \o [k \in 1 .. Len(current_numbers) |->
                                  <<current_numbers[k], str[i]>>])
  ELSE ParseTilesFrom(str, i + 1, Append(current_numbers, str[i]), tiles)

_parse_hand_tiles(hand_str_) == ParseTilesFrom(hand_str_, 1, <<>>, <<>>)

\* _parse_guess: re.sub(r'\s+', '', guess_str), then _parse_hand_tiles
_parse_guess(guess_str) ==
  LET NoSpace(ch) == ch # " "
  IN _parse_hand_tiles(SelectSeq(guess_str, NoSpace))

\* check_guess, lines 168-199: the digits of each run of equal suits go to the suit's string
GuessFlush(st) ==
  IF st.current_type = "m" THEN [st EXCEPT !.man = @ \o st.current_numbers]
  ELSE IF st.current_type = "p" THEN [st EXCEPT !.pin = @ \o st.current_numbers]
  ELSE IF st.current_type = "s" THEN [st EXCEPT !.sou = @ \o st.current_numbers]
  ELSE IF st.current_type = "z" THEN [st EXCEPT !.honors = @ \o st.current_numbers]
  ELSE st

RECURSIVE GuessGroupsFrom(_, _, _)
GuessGroupsFrom(tiles, i, st) ==
  IF i > Len(tiles) THEN GuessFlush(st)
  ELSE IF st.current_type # tiles[i][2]
  THEN GuessGroupsFrom(tiles, i + 1,
                       [GuessFlush(st) EXCEPT !.current_type = tiles[i][2],
                                              !.current_numbers = <<tiles[i][1]>>])
  ELSE GuessGroupsFrom(tiles, i + 1, [st EXCEPT !.current_numbers = Append(@, tiles[i][1])])

GuessGroups(tiles) ==
  LET st == GuessGroupsFrom(tiles, 1,
                            [man |-> <<>>, pin |-> <<>>, sou |-> <<>>, honors |-> <<>>,
                             current_type |-> NoneStr, current_numbers |-> <<>>])
  IN [man |-> st.man, pin |-> st.pin, sou |-> st.sou, honors |-> st.honors]

\* helper.calculate_shanten(man=..., ...): an exception of the conversion (int() of a
\* character that is no digit, an index outside the 34 counts) or of the library
\* is caught there and answered with shanten = 0, success = False
GuessShantenOutcomes(hc) ==
  LET failed == [shanten |-> 0, success |-> FALSE, error |-> "exception"]
      chars == hc.man \o hc.pin \o hc.sou \o hc.honors
  IN IF \E k \in 1 .. Len(chars) : chars[k] \notin DigitChars THEN {failed}
     ELSE IF To34Raises(string_to_136_array(hc)) THEN {failed}
     ELSE ShantenOutcomes(to_34_array(string_to_136_array(hc)))

\* check_guess, lines 206-228: exact matches first, then the tiles that are elsewhere
NoTile == <<>>

FirstPass(guess_tiles, target_tiles) ==
  [i \in 1 .. Len(guess_tiles) |->
     [code |-> guess_tiles[i],
      status |-> IF i <= Len(target_tiles) /\ guess_tiles[i] = target_tiles[i]
                 THEN "correct" ELSE "unknown"]]

\* the second pass without the marking of matched target tiles
RECURSIVE SecondPass_NoMarking(_, _, _)
SecondPass_NoMarking(result_tiles, target_copy, i) ==
  IF i > Len(result_tiles) THEN result_tiles
  ELSE IF result_tiles[i].status # "unknown"
  THEN SecondPass_NoMarking(result_tiles, target_copy, i + 1)
  ELSE SecondPass_NoMarking(
         [result_tiles EXCEPT ![i].status = IF InSeq(target_copy, result_tiles[i].code)
                                            THEN "exists" ELSE "wrong"],
         target_copy, i + 1)

RECURSIVE SecondPass(_, _, _)
SecondPass(result_tiles, target_copy, i) ==
  IF i > Len(result_tiles) THEN result_tiles
  ELSE IF result_tiles[i].status # "unknown" THEN SecondPass(result_tiles, target_copy, i + 1)
  ELSE IF InSeq(target_copy, result_tiles[i].code)
  THEN LET at == CHOOSE k \in 1 .. Len(target_copy) :
                   /\ target_copy[k] = result_tiles[i].code
                   /\ \A j \in 1 .. (k - 1) : target_copy[j] # result_tiles[i].code
       IN SecondPass([result_tiles EXCEPT ![i].status = "exists"],
                     [target_copy EXCEPT ![at] = NoTile], i + 1)
  ELSE SecondPass([result_tiles EXCEPT ![i].status = "wrong"], target_copy, i + 1)

CheckTiles(guess_tiles, target_tiles) ==
  LET first == FirstPass(guess_tiles, target_tiles)
      target_copy == [i \in 1 .. Len(target_tiles) |->
                        IF i <= Len(first) /\ first[i].status = "correct"
                        THEN NoTile ELSE target_tiles[i]]
  IN SecondPass(first, target_copy, 1)

AllCorrect(result_tiles) ==
  \A i \in 1 .. Len(result_tiles) : result_tiles[i].status = "correct"

\* start_game, lines 76-84, for the hand the data loader gave
NewGameState(hand, user_id, max_attempts) ==
  [hand_data |-> [hand |-> hand], target_tiles |-> _parse_hand_tiles(hand),
   guesses |-> <<>>, max_attempts |-> max_attempts, completed |-> FALSE, win |-> FALSE,
   started_by |-> user_id]

\* start_game: [games, raised]
start_game(games, user_id, group_id, hand, max_attempts) ==
  LET game_key == _get_game_key(user_id, group_id)
  IN IF Registered(games, game_key) THEN [games |-> games, raised |-> "game_in_progress"]
     ELSE IF hand = NoneStr THEN [games |-> games, raised |-> "no_hand_data"]
     ELSE [games |-> Put(games, game_key, NewGameState(hand, user_id, max_attempts)),
           raised |-> NoneStr]

\* check_guess raises e before anything is recorded: [games, raised, guess_record]
Rejected_ConsumesAttempt(games, e) ==
  [games |-> [k \in DOMAIN games |-> [games[k] EXCEPT !.guesses = Append(@, None)]],
   raised |-> e, guess_record |-> None]

Rejected(games, e) == [games |-> games, raised |-> e, guess_record |-> None]

\* check_guess, lines 236-247: the guess is recorded and the game may end
RecordGuess_WinAtEnd(game_state, guess_record) ==
  LET guesses == Append(game_state.guesses, guess_record)
      ended == guess_record.correct \/ Len(guesses) >= game_state.max_attempts
  IN [game_state EXCEPT !.guesses = guesses,
                        !.completed = IF ended THEN TRUE ELSE @,
                        !.win = IF ended THEN TRUE ELSE @]

RecordGuess(game_state, guess_record) ==
  LET guesses == Append(game_state.guesses, guess_record)
      ended == guess_record.correct \/ Len(guesses) >= game_state.max_attempts
  IN [game_state EXCEPT !.guesses = guesses,
                        !.completed = IF ended THEN TRUE ELSE @,
                        !.win = IF ended THEN guess_record.correct ELSE @]

\* check_guess with sr the answer of helper.calculate_shanten: [games, raised, guess_record]
check_guess(games, user_id, guess_str, group_id, sr) ==
  LET game_key == _get_game_key(user_id, group_id)
  IN IF ~Registered(games, game_key) THEN Rejected(games, "no_game")
     ELSE IF games[game_key].completed THEN Rejected(Del(games, game_key), "game_over")
     ELSE
       LET game_state == games[game_key]
           guess_tiles == _parse_guess(guess_str)
       IN IF Len(guess_tiles) # Len(game_state.target_tiles)
          THEN Rejected(games, "bad_length")
          ELSE IF sr.shanten # 0 THEN Rejected(games, "bad_shape")
          ELSE
            LET result_tiles == CheckTiles(guess_tiles, game_state.target_tiles)
                guess_record == [tiles |-> result_tiles, correct |-> AllCorrect(result_tiles),
                                 user_id |-> user_id]
            IN [games |-> Put(games, game_key, RecordGuess(game_state, guess_record)),
                raised |-> NoneStr,
                guess_record |-> guess_record]

(***************************************************************************)
(* State: one analyze_hand call.  pc is the position in the call; the      *)
(* other variables are its locals (those of calculate_ukeire included) and *)
(* the result object it returns.                                           *)
(***************************************************************************)
VARIABLES
  hand_str,            \* the argument
  pc,
  hand_components, tiles_136, tiles_34, total_tiles, shanten_result,
  result,              \* the HandAnalysisResult (None until it exists)
  win_tile,            \* [type, value, tile] passed to estimate_hand_value
  dep,                 \* what the scoring dependency answered
  u_tiles_34, current_shanten, ukeire_results, discard_pos, ukeire, u_waiting,
  try_tile,
  original_tiles_34, waiting_tiles, best_tiles, best_shanten,
  shanten_tiles,       \* the scratch array kept by the helper's one Shanten object
  calls,               \* the analyze_hand calls made on the one PaiAnalyzer
  calc_out,            \* what the one HandCalculator answers for the winning text
  wordle_games,        \* self.wordle.current_games: game key -> game state
  multi_games,         \* self.multi_wordle.current_games: game key -> multi-game state
  sub_games,           \* self.multi_wordle.games[i].current_games, i = 1 .. num_games
  w_ret,               \* the last Wordle command: its arguments and how it ended
  gen                  \* the locals of generate_valid_hands

vars ==
  <<hand_str, pc, hand_components, tiles_136, tiles_34, total_tiles, shanten_result,
    result, win_tile, dep, u_tiles_34, current_shanten, ukeire_results, discard_pos,
    ukeire, u_waiting, try_tile, original_tiles_34, waiting_tiles, best_tiles,
    best_shanten, shanten_tiles, calls, calc_out,
    wordle_games, multi_games, sub_games, w_ret, gen>>

wordleVars == <<wordle_games, multi_games, sub_games, w_ret, gen>>

ukeireVars ==
  <<u_tiles_34, current_shanten, ukeire_results, discard_pos, ukeire, u_waiting>>

loop13Vars == <<original_tiles_34, waiting_tiles, best_tiles, best_shanten>>

parsedVars == <<hand_components, tiles_136, total_tiles, shanten_result>>

callVars == <<shanten_tiles, calls, calc_out>>

vars_single ==
  <<hand_str, pc, hand_components, tiles_136, tiles_34, total_tiles, shanten_result,
    result, win_tile, dep, u_tiles_34, current_shanten, ukeire_results, discard_pos,
    ukeire, u_waiting, try_tile, original_tiles_34, waiting_tiles, best_tiles,
    best_shanten>>

(***************************************************************************)
(* The plugin builds one PaiAnalyzer, whose one MahjongHelper holds one     *)
(* Shanten and one HandCalculator object; every analyze_hand call goes     *)
(* through them.  Calls are numbered in the order they begin.              *)
(***************************************************************************)
NumCalls == 3

Calls == 1 .. NumCalls

IdleCall ==
  [text |-> <<>>, pc |-> "idle", tiles_34 |-> None, shanten |-> None, result |-> None]

\* no Wordle command has been handled and the library refresh has not run
WordleIdle ==
  /\ wordle_games = <<>>
  /\ multi_games = <<>>
  /\ sub_games = <<>>
  /\ w_ret = None
  /\ gen = None

\* no call has been made yet
CallsIdle ==
  /\ shanten_tiles = None
  /\ calls = [i \in Calls |-> IdleCall]
  /\ calc_out = None

Init ==
  /\ hand_str \in HandTexts
  /\ pc = "parse"
  /\ hand_components = None
  /\ tiles_136 = None
  /\ tiles_34 = None
  /\ total_tiles = None
  /\ shanten_result = None
  /\ result = None
  /\ win_tile = None
  /\ dep = None
  /\ u_tiles_34 = None
  /\ current_shanten = None
  /\ ukeire_results = <<>>
  /\ discard_pos = 0
  /\ ukeire = 0
  /\ u_waiting = <<>>
  /\ try_tile = 0
  /\ original_tiles_34 = None
  /\ waiting_tiles = <<>>
  /\ best_tiles = <<>>
  /\ best_shanten = None
  /\ CallsIdle
  /\ WordleIdle

\* hand_components = self.parse_hand(hand_str)
ParseHand ==
  /\ pc = "parse"
  /\ hand_components' = parse_hand(hand_str)
  /\ pc' = "convert"
  /\ UNCHANGED <<hand_str, tiles_136, tiles_34, total_tiles, shanten_result, result,
                 win_tile, dep, try_tile>>
  /\ UNCHANGED ukeireVars
  /\ UNCHANGED loop13Vars
  /\ UNCHANGED callVars
  /\ UNCHANGED wordleVars

\* tiles_136 = convert_tiles(...); tiles_34 = to_34_array(tiles_136); total_tiles
ConvertTiles ==
  /\ pc = "convert"
  /\ ~To34Raises(string_to_136_array(hand_components))
  /\ tiles_136' = string_to_136_array(hand_components)
  /\ tiles_34' = to_34_array(tiles_136')
  /\ total_tiles' = Sum34(tiles_34')
  /\ pc' = "shanten"
  /\ UNCHANGED <<hand_str, hand_components, shanten_result, result, win_tile, dep,
                 try_tile>>
  /\ UNCHANGED ukeireVars
  /\ UNCHANGED loop13Vars
  /\ UNCHANGED callVars
  /\ UNCHANGED wordleVars

\* to_34_array raises IndexError: the except clause of analyze_hand
ConvertFails ==
  /\ pc = "convert"
  /\ To34Raises(string_to_136_array(hand_components))
  /\ tiles_136' = string_to_136_array(hand_components)
  /\ result' = FailedResult(hand_str)
  /\ pc' = "done"
  /\ UNCHANGED <<hand_str, hand_components, tiles_34, total_tiles, shanten_result,
                 win_tile, dep, try_tile>>
  /\ UNCHANGED ukeireVars
  /\ UNCHANGED loop13Vars
  /\ UNCHANGED callVars
  /\ UNCHANGED wordleVars

\* shanten_result = self.helper.calculate_shanten(man=..., ...); result = ...
CalculateShanten ==
  /\ pc = "shanten"
  /\ shanten_result' \in
       ShantenOutcomes(to_34_array(string_to_136_array(hand_components)))
  /\ result' = HandAnalysisResult(hand_str, total_tiles, hand_components,
                                  shanten_result')
  /\ pc' = "dispatch"
  /\ UNCHANGED <<hand_str, hand_components, tiles_136, tiles_34, total_tiles,
                 win_tile, dep, try_tile>>
  /\ UNCHANGED ukeireVars
  /\ UNCHANGED loop13Vars
  /\ UNCHANGED callVars
  /\ UNCHANGED wordleVars

\* total_tiles == 14 and shanten == -1: choose the winning tile
ChooseWinTile ==
  /\ pc = "dispatch"
  /\ Branch(total_tiles, shanten_result.shanten) = "win"
  /\ LET w == SelectWinTile(hand_components)
     IN IF w = None
        THEN /\ result' = FailedResult(hand_str)
             /\ pc' = "done"
             /\ UNCHANGED win_tile
        ELSE /\ win_tile' = [type |-> w.type, value |-> w.value,
                             tile |-> WinTile136(w)]
             /\ pc' = "estimate"
             /\ UNCHANGED result
  /\ UNCHANGED <<hand_str, tiles_34, dep, try_tile>>
  /\ UNCHANGED parsedVars
  /\ UNCHANGED ukeireVars
  /\ UNCHANGED loop13Vars
  /\ UNCHANGED callVars
  /\ UNCHANGED wordleVars

\* result.hand_value = self.helper.estimate_hand_value(...)
EstimateHandValue ==
  /\ pc = "estimate"
  /\ \E out \in DepOutcomes :
       /\ dep' = out
       /\ result' = SetHandValue(result, hand_str, out)
  /\ pc' = "done"
  /\ UNCHANGED <<hand_str, tiles_34, win_tile, try_tile>>
  /\ UNCHANGED parsedVars
  /\ UNCHANGED ukeireVars
  /\ UNCHANGED loop13Vars
  /\ UNCHANGED callVars
  /\ UNCHANGED wordleVars

\* total_tiles == 14, otherwise: calculate_ukeire(tiles_136) up to its outer loop
UkeireBegin ==
  /\ pc = "dispatch"
  /\ Branch(total_tiles, shanten_result.shanten) = "ukeire"
  /\ u_tiles_34' = to_34_array(tiles_136)
  /\ IF ShantenRaises(u_tiles_34')
     THEN /\ result' = [result EXCEPT !.ukeire =
                          [success |-> FALSE, error |-> "too_many_tiles",
                           options |-> <<>>, current_shanten |-> 0]]
          /\ pc' = "done"
          /\ UNCHANGED current_shanten
     ELSE /\ current_shanten' = Shanten(u_tiles_34')
          /\ pc' = "ukeire_discard"
          /\ UNCHANGED result
  /\ ukeire_results' = <<>>
  /\ discard_pos' = 0
  /\ UNCHANGED <<hand_str, tiles_34, win_tile, dep, try_tile, ukeire, u_waiting>>
  /\ UNCHANGED parsedVars
  /\ UNCHANGED loop13Vars
  /\ UNCHANGED callVars
  /\ UNCHANGED wordleVars

\* for discard_pos in range(34): skip an absent kind, or remove one tile
UkeireDiscard ==
  /\ pc = "ukeire_discard"
  /\ discard_pos < NumKinds
  /\ IF u_tiles_34[discard_pos] = 0
     THEN /\ discard_pos' = discard_pos + 1
          /\ UNCHANGED <<pc, u_tiles_34, ukeire, u_waiting, try_tile>>
     ELSE /\ u_tiles_34' = Dec(u_tiles_34, discard_pos)
          /\ ukeire' = 0
          /\ u_waiting' = <<>>
          /\ try_tile' = 0
          /\ pc' = "ukeire_try"
          /\ UNCHANGED discard_pos
  /\ UNCHANGED <<hand_str, tiles_34, result, win_tile, dep, current_shanten,
                 ukeire_results>>
  /\ UNCHANGED parsedVars
  /\ UNCHANGED loop13Vars
  /\ UNCHANGED callVars
  /\ UNCHANGED wordleVars

\* for try_tile in range(34): one pass
UkeireTry ==
  /\ pc = "ukeire_try"
  /\ try_tile < NumKinds
  /\ LET r == UkeireTryStep(u_tiles_34, current_shanten, discard_pos, try_tile,
                            ukeire, u_waiting)
     IN /\ u_tiles_34' = r.tiles_34
        /\ ukeire' = r.ukeire
        /\ u_waiting' = r.waiting_tiles
  /\ try_tile' = try_tile + 1
  /\ UNCHANGED <<hand_str, pc, tiles_34, result, win_tile, dep, current_shanten,
                 ukeire_results, discard_pos>>
  /\ UNCHANGED parsedVars
  /\ UNCHANGED loop13Vars
  /\ UNCHANGED callVars
  /\ UNCHANGED wordleVars

\* after the inner loop: put the discard back, record the option
UkeireDiscardEnd ==
  /\ pc = "ukeire_try"
  /\ try_tile = NumKinds
  /\ u_tiles_34' = Inc(u_tiles_34, discard_pos)
  /\ ukeire_results' = AppendOption(ukeire_results, discard_pos, ukeire, u_waiting)
  /\ discard_pos' = discard_pos + 1
  /\ pc' = "ukeire_discard"
  /\ UNCHANGED <<hand_str, tiles_34, result, win_tile, dep, current_shanten, ukeire,
                 u_waiting, try_tile>>
  /\ UNCHANGED parsedVars
  /\ UNCHANGED loop13Vars
  /\ UNCHANGED callVars
  /\ UNCHANGED wordleVars

\* ukeire_results.sort(...); return UkeireResult(...); result.ukeire = ...
UkeireFinish ==
  /\ pc = "ukeire_discard"
  /\ discard_pos = NumKinds
  /\ ukeire_results' = SortOptions(ukeire_results)
  /\ result' = [result EXCEPT !.ukeire = UkeireResult(ukeire_results', current_shanten)]
  /\ pc' = "done"
  /\ UNCHANGED <<hand_str, tiles_34, win_tile, dep, u_tiles_34, current_shanten,
                 discard_pos, ukeire, u_waiting, try_tile>>
  /\ UNCHANGED parsedVars
  /\ UNCHANGED loop13Vars
  /\ UNCHANGED callVars
  /\ UNCHANGED wordleVars

\* total_tiles == 13 and shanten == 0
WaitsBegin ==
  /\ pc = "dispatch"
  /\ Branch(total_tiles, shanten_result.shanten) = "waits"
  /\ waiting_tiles' = <<>>
  /\ original_tiles_34' = tiles_34
  /\ try_tile' = 0
  /\ pc' = "waits"
  /\ UNCHANGED <<hand_str, tiles_34, result, win_tile, dep, best_tiles, best_shanten>>
  /\ UNCHANGED parsedVars
  /\ UNCHANGED ukeireVars
  /\ UNCHANGED callVars
  /\ UNCHANGED wordleVars

WaitsTry ==
  /\ pc = "waits"
  /\ try_tile < NumKinds
  /\ LET r == WaitsTryStep(tiles_34, original_tiles_34, try_tile, waiting_tiles)
     IN /\ tiles_34' = r.tiles_34
        /\ waiting_tiles' = r.waiting_tiles
  /\ try_tile' = try_tile + 1
  /\ UNCHANGED <<hand_str, pc, result, win_tile, dep, original_tiles_34, best_tiles,
                 best_shanten>>
  /\ UNCHANGED parsedVars
  /\ UNCHANGED ukeireVars
  /\ UNCHANGED callVars
  /\ UNCHANGED wordleVars

\* result.waiting_tiles = waiting_tiles
WaitsFinish ==
  /\ pc = "waits"
  /\ try_tile = NumKinds
  /\ result' = [result EXCEPT !.waiting_tiles = waiting_tiles]
  /\ pc' = "done"
  /\ UNCHANGED <<hand_str, tiles_34, win_tile, dep, try_tile>>
  /\ UNCHANGED parsedVars
  /\ UNCHANGED ukeireVars
  /\ UNCHANGED loop13Vars
  /\ UNCHANGED callVars
  /\ UNCHANGED wordleVars

\* total_tiles == 13, otherwise
AdvanceBegin ==
  /\ pc = "dispatch"
  /\ Branch(total_tiles, shanten_result.shanten) = "advance"
  /\ best_tiles' = <<>>
  /\ best_shanten' = shanten_result.shanten
  /\ original_tiles_34' = tiles_34
  /\ try_tile' = 0
  /\ pc' = "advance"
  /\ UNCHANGED <<hand_str, tiles_34, result, win_tile, dep, waiting_tiles>>
  /\ UNCHANGED parsedVars
  /\ UNCHANGED ukeireVars
  /\ UNCHANGED callVars
  /\ UNCHANGED wordleVars

AdvanceTry ==
  /\ pc = "advance"
  /\ try_tile < NumKinds
  /\ LET r == AdvanceTryStep(tiles_34, original_tiles_34, try_tile, best_tiles,
                             best_shanten)
     IN /\ tiles_34' = r.tiles_34
        /\ best_tiles' = r.best_tiles
        /\ best_shanten' = r.best_shanten
  /\ try_tile' = try_tile + 1
  /\ UNCHANGED <<hand_str, pc, result, win_tile, dep, original_tiles_34,
                 waiting_tiles>>
  /\ UNCHANGED parsedVars
  /\ UNCHANGED ukeireVars
  /\ UNCHANGED callVars
  /\ UNCHANGED wordleVars

\* result.waiting_tiles = best_tiles
AdvanceFinish ==
  /\ pc = "advance"
  /\ try_tile = NumKinds
  /\ result' = [result EXCEPT !.waiting_tiles = best_tiles]
  /\ pc' = "done"
  /\ UNCHANGED <<hand_str, tiles_34, win_tile, dep, try_tile>>
  /\ UNCHANGED parsedVars
  /\ UNCHANGED ukeireVars
  /\ UNCHANGED loop13Vars
  /\ UNCHANGED callVars
  /\ UNCHANGED wordleVars

\* else: result.success = False; result.error = ...
BadCount ==
  /\ pc = "dispatch"
  /\ Branch(total_tiles, shanten_result.shanten) = "error"
  /\ result' = [result EXCEPT !.success = FALSE, !.error = "bad_tile_count"]
  /\ pc' = "done"
  /\ UNCHANGED <<hand_str, tiles_34, win_tile, dep, try_tile>>
  /\ UNCHANGED parsedVars
  /\ UNCHANGED ukeireVars
  /\ UNCHANGED loop13Vars
  /\ UNCHANGED callVars
  /\ UNCHANGED wordleVars

Next ==
  \/ ParseHand
  \/ ConvertTiles
  \/ ConvertFails
  \/ CalculateShanten
  \/ ChooseWinTile
  \/ EstimateHandValue
  \/ UkeireBegin
  \/ UkeireDiscard
  \/ UkeireTry
  \/ UkeireDiscardEnd
  \/ UkeireFinish
  \/ WaitsBegin
  \/ WaitsTry
  \/ WaitsFinish
  \/ AdvanceBegin
  \/ AdvanceTry
  \/ AdvanceFinish
  \/ BadCount

Spec == Init /\ [][Next]_vars

(***************************************************************************)
(* The parser alone: parse_hand applied to every short text over a small   *)
(* alphabet of digits, markers of both cases and an unrecognised character.*)
(***************************************************************************)
MaxTextLen == 4

ParseAlphabet == {"1", "2", "m", "P", "z", ","}

ParseTexts == UNION {[1 .. n -> ParseAlphabet] : n \in 0 .. MaxTextLen}

ParseInit ==
  /\ hand_str \in ParseTexts
  /\ pc = "parse"
  /\ hand_components = None
  /\ tiles_136 = None
  /\ tiles_34 = None
  /\ total_tiles = None
  /\ shanten_result = None
  /\ result = None
  /\ win_tile = None
  /\ dep = None
  /\ u_tiles_34 = None
  /\ current_shanten = None
  /\ ukeire_results = <<>>
  /\ discard_pos = 0
  /\ ukeire = 0
  /\ u_waiting = <<>>
  /\ try_tile = 0
  /\ original_tiles_34 = None
  /\ waiting_tiles = <<>>
  /\ best_tiles = <<>>
  /\ best_shanten = None
  /\ CallsIdle
  /\ WordleIdle

ParseNext == ParseHand

ParseSpec == ParseInit /\ [][ParseNext]_vars

(***************************************************************************)
(* Several analyze_hand calls on the one PaiAnalyzer.  The loops of a call *)
(* are folded over the per-pass operators above; the first shanten         *)
(* computation of a call is taken in its two halves, the Shanten object    *)
(* storing the array it works on and the scan of the stored array.         *)
(***************************************************************************)
SetMax(S) == CHOOSE v \in S : \A w \in S : v >= w

\* statement order: the value a of the earlier passes is computed before b is
Then(a, b) == IF a = a THEN b ELSE b

Addable34(c) == {t \in Kinds : c[t] < CopiesPerKind}

(* The passes lo .. hi - 1 of a loop, in order: the range is halved, its   *)
(* first half runs, then the second half runs from the state it left.      *)
RECURSIVE WaitsPasses(_, _, _, _)
WaitsPasses(st, original, lo, hi) ==
  IF hi = lo + 1 THEN WaitsTryStep(st.tiles_34, original, lo, st.waiting_tiles)
  ELSE LET mid == (lo + hi) \div 2
           r == WaitsPasses(st, original, lo, mid)
       IN Then(r, WaitsPasses(r, original, mid, hi))

WaitsLoop(c, original) ==
  WaitsPasses([tiles_34 |-> c, waiting_tiles |-> <<>>], original, 0, NumKinds).waiting_tiles

RECURSIVE AdvancePasses(_, _, _, _)
AdvancePasses(st, original, lo, hi) ==
  IF hi = lo + 1
  THEN AdvanceTryStep(st.tiles_34, original, lo, st.best_tiles, st.best_shanten)
  ELSE LET mid == (lo + hi) \div 2
           r == AdvancePasses(st, original, lo, mid)
       IN Then(r, AdvancePasses(r, original, mid, hi))

AdvanceLoop(c, original, sh) ==
  AdvancePasses([tiles_34 |-> c, best_tiles |-> <<>>, best_shanten |-> sh],
                original, 0, NumKinds).best_tiles

RECURSIVE UkeirePasses(_, _, _, _, _)
UkeirePasses(st, cur, d, lo, hi) ==
  IF hi = lo + 1
  THEN UkeireTryStep(st.tiles_34, cur, d, lo, st.ukeire, st.waiting_tiles)
  ELSE LET mid == (lo + hi) \div 2
           r == UkeirePasses(st, cur, d, lo, mid)
       IN Then(r, UkeirePasses(r, cur, d, mid, hi))

\* one pass of the outer loop: skip an absent kind, or discard, probe, put back, record
UkeireDiscardPass(st, cur, d) ==
  IF st.tiles_34[d] = 0 THEN st
  ELSE LET r == UkeirePasses([tiles_34 |-> Dec(st.tiles_34, d), ukeire |-> 0,
                              waiting_tiles |-> <<>>], cur, d, 0, NumKinds)
       IN [tiles_34 |-> Inc(r.tiles_34, d),
           results |-> AppendOption(st.results, d, r.ukeire, r.waiting_tiles)]

RECURSIVE DiscardPasses(_, _, _, _)
DiscardPasses(st, cur, lo, hi) ==
  IF hi = lo + 1 THEN UkeireDiscardPass(st, cur, lo)
  ELSE LET mid == (lo + hi) \div 2
           r == DiscardPasses(st, cur, lo, mid)
       IN Then(r, DiscardPasses(r, cur, mid, hi))

calculate_ukeire(c) ==
  LET cur == Shanten(c)
  IN UkeireResult(SortOptions(DiscardPasses([tiles_34 |-> c, results |-> <<>>],
                                            cur, 0, NumKinds).results), cur)

\* analyze_hand from the dispatch on, for counts c and first shanten sh
AnalyzeRest(text, c, sh, out) ==
  LET sr == [shanten |-> sh, success |-> TRUE, error |-> NoneStr]
      res == HandAnalysisResult(text, Sum34(c), parse_hand(text), sr)
      b == Branch(Sum34(c), sh)
  IN CASE b = "win" -> SetHandValue(res, text, out)
       [] b = "ukeire" -> [res EXCEPT !.ukeire = calculate_ukeire(c)]
       [] b = "waits" -> [res EXCEPT !.waiting_tiles = WaitsLoop(c, c)]
       [] b = "advance" -> [res EXCEPT !.waiting_tiles = AdvanceLoop(c, c, sh)]
       [] OTHER -> [res EXCEPT !.success = FALSE, !.error = "bad_tile_count"]

\* Mutant of ShantenObjInit: an array already stored is kept.
ShantenObjInit_KeepStored(stored, c) == IF stored # None THEN stored ELSE c

\* the Shanten object stores the array of the computation it starts
ShantenObjInit(stored, c) == c

\* the scan runs on the stored array; the seven-pairs and orphans counts on the argument
ShantenObjRead(stored, c) ==
  Min(calculate_shanten_for_regular_hand(stored),
      Min(calculate_shanten_for_chiitoitsu_hand(c),
          calculate_shanten_for_kokushi_hand(c)))

\* the array of the last shanten computation of a call's branch
LastProbe(stored, c, sh) ==
  LET b == Branch(Sum34(c), sh)
      d == SetMax({k \in Kinds : c[k] > 0})
  IN CASE b \in {"waits", "advance"} -> Inc(c, SetMax(Addable34(c)))
       [] b = "ukeire" -> Inc(Dec(c, d), SetMax(Addable34(Dec(c, d))))
       [] OTHER -> stored

(***************************************************************************)
(* The shanten computation alone: MahjongHelper.calculate_shanten applied  *)
(* to 14-tile hands, each a 13-tile seed hand with one more tile.          *)
(***************************************************************************)
NumSeeds == 5

SeedTexts == <<
  <<"1", "9", "m", "1", "9", "p", "1", "9", "s", "1", "2", "3", "4", "5", "6", "7", "z">>,
  <<"1", "1", "9", "9", "m", "1", "1", "9", "9", "p", "1", "1", "9", "9", "s", "1", "z">>,
  <<"1", "2", "3", "m", "4", "5", "6", "p", "7", "8", "9", "s", "1", "1", "2", "2", "z">>,
  <<"1", "4", "7", "m", "2", "5", "8", "p", "3", "6", "9", "s", "1", "2", "3", "4", "z">>,
  <<"2", "2", "3", "3", "4", "4", "m", "5", "5", "6", "6", "7", "7", "p", "8", "s">>,
  <<"1", "1", "1", "2", "3", "4", "5", "6", "7", "8", "9", "9", "9", "m">>>>

ShantenHands ==
  {Inc(to_34_array(string_to_136_array(parse_hand(SeedTexts[n]))), t) :
     n \in 1 .. Min(NumSeeds, Len(SeedTexts)),
     t \in {k \in Kinds : TRUE}}
    \cap [Kinds -> 0 .. CopiesPerKind]

ShantenInit ==
  /\ hand_str = <<>>
  /\ pc = "shanten_in"
  /\ hand_components = None
  /\ tiles_136 = None
  /\ tiles_34 \in ShantenHands
  /\ total_tiles = None
  /\ shanten_result = None
  /\ result = None
  /\ win_tile = None
  /\ dep = None
  /\ u_tiles_34 = None
  /\ current_shanten = None
  /\ ukeire_results = <<>>
  /\ discard_pos = 0
  /\ ukeire = 0
  /\ u_waiting = <<>>
  /\ try_tile = 0
  /\ original_tiles_34 = None
  /\ waiting_tiles = <<>>
  /\ best_tiles = <<>>
  /\ best_shanten = None
  /\ CallsIdle
  /\ WordleIdle

\* shanten_result = self.helper.calculate_shanten(tiles_34=tiles_34)
ShantenApply ==
  /\ pc = "shanten_in"
  /\ shanten_result' \in ShantenOutcomes(tiles_34)
  /\ pc' = "shanten_out"
  /\ UNCHANGED <<hand_str, hand_components, tiles_136, tiles_34, total_tiles, result,
                 win_tile, dep, try_tile>>
  /\ UNCHANGED ukeireVars
  /\ UNCHANGED loop13Vars
  /\ UNCHANGED callVars
  /\ UNCHANGED wordleVars

ShantenNext == ShantenApply

ShantenSpec == ShantenInit /\ [][ShantenNext]_vars

(***************************************************************************)
(* analyze_hand up to the shanten, on reordered hand texts: a family is a  *)
(* list of digit+marker groups, and its texts are the groups in every      *)
(* order with the digits of each group in every order.                     *)
(***************************************************************************)
NumFamilies == 4

Families == <<
  << <<"1", "2", "3", "m">>, <<"4", "5", "P">>, <<"1", "z">> >>,
  << <<"1", "1", "1", "1", "2", "m">>, <<"1", "m">> >>,
  << <<"7", "7", "7", "7", "z">>, <<"7", "z">>, <<"1", "s">> >>,
  << <<"9", "9", "9", "9", "9", "m">>, <<"1", "p">>, <<"1", "9", "s">> >>,
  << <<"5", "5", "s">>, <<"5", "S">>, <<"5", "5", "z">> >> >>

PermsOf(str) ==
  {[i \in 1 .. Len(str) |-> str[f[i]]] :
     f \in {g \in [1 .. Len(str) -> 1 .. Len(str)] :
              \A a, b \in 1 .. Len(str) : a # b => g[a] # g[b]}}

GroupTexts(g) == {d \o <<Last(g)>> : d \in PermsOf(SubSeq(g, 1, Len(g) - 1))}

RECURSIVE ArrangeFrom(_, _)
ArrangeFrom(F, S) ==
  IF S = {} THEN {<<>>}
  ELSE UNION {{t \o rest : t \in GroupTexts(F[i]), rest \in ArrangeFrom(F, S \ {i})} :
                i \in S}

FamilyTexts(F) == ArrangeFrom(F, 1 .. Len(F))

PermTexts == UNION {FamilyTexts(Families[n]) : n \in 1 .. Min(NumFamilies, Len(Families))}

PermInit ==
  /\ hand_str \in PermTexts
  /\ pc = "parse"
  /\ hand_components = None
  /\ tiles_136 = None
  /\ tiles_34 = None
  /\ total_tiles = None
  /\ shanten_result = None
  /\ result = None
  /\ win_tile = None
  /\ dep = None
  /\ u_tiles_34 = None
  /\ current_shanten = None
  /\ ukeire_results = <<>>
  /\ discard_pos = 0
  /\ ukeire = 0
  /\ u_waiting = <<>>
  /\ try_tile = 0
  /\ original_tiles_34 = None
  /\ waiting_tiles = <<>>
  /\ best_tiles = <<>>
  /\ best_shanten = None
  /\ CallsIdle
  /\ WordleIdle

PermNext ==
  \/ ParseHand
  \/ ConvertTiles
  \/ ConvertFails
  \/ CalculateShanten

PermSpec == PermInit /\ [][PermNext]_vars

(***************************************************************************)
(* analyze_hand on complete hands, with the scoring dependency returning   *)
(* one yaku of any identifier: those of YAKU_NAME_MAP and identifiers of   *)
(* the library that the table does not have.                               *)
(***************************************************************************)
UnmappedNames == {"Kokushi Musou", "Menzen Tsumo", "Yakuhai (haku)"}

YakuOutcomes ==
  {[kind |-> "ok", error |-> NoneStr, han |-> 1, fu |-> 30,
    yaku |-> <<[name |-> n, han_closed |-> 1, han_open |-> 0]>>,
    is_open_hand |-> FALSE] : n \in DOMAIN YAKU_NAME_MAP \cup UnmappedNames}

WinTexts ==
  {t \in HandTexts :
     LET tiles == string_to_136_array(parse_hand(t))
     IN IF To34Raises(tiles) THEN FALSE
        ELSE IF Sum34(to_34_array(tiles)) # 14 THEN FALSE
        ELSE Shanten(to_34_array(tiles)) = -1}

YakuInit ==
  /\ hand_str \in WinTexts
  /\ pc = "parse"
  /\ hand_components = None
  /\ tiles_136 = None
  /\ tiles_34 = None
  /\ total_tiles = None
  /\ shanten_result = None
  /\ result = None
  /\ win_tile = None
  /\ dep = None
  /\ u_tiles_34 = None
  /\ current_shanten = None
  /\ ukeire_results = <<>>
  /\ discard_pos = 0
  /\ ukeire = 0
  /\ u_waiting = <<>>
  /\ try_tile = 0
  /\ original_tiles_34 = None
  /\ waiting_tiles = <<>>
  /\ best_tiles = <<>>
  /\ best_shanten = None
  /\ CallsIdle
  /\ WordleIdle

\* result.hand_value = self.helper.estimate_hand_value(...), one yaku returned
EstimateYaku ==
  /\ pc = "estimate"
  /\ \E out \in YakuOutcomes :
       /\ dep' = out
       /\ result' = SetHandValue(result, hand_str, out)
  /\ pc' = "done"
  /\ UNCHANGED <<hand_str, tiles_34, win_tile, try_tile>>
  /\ UNCHANGED parsedVars
  /\ UNCHANGED ukeireVars
  /\ UNCHANGED loop13Vars
  /\ UNCHANGED callVars
  /\ UNCHANGED wordleVars

YakuNext ==
  \/ ParseHand
  \/ ConvertTiles
  \/ CalculateShanten
  \/ ChooseWinTile
  \/ EstimateYaku

YakuSpec == YakuInit /\ [][YakuNext]_vars

(***************************************************************************)
(* The Wordle command of the plugin on its one MahjongWordle: sender and   *)
(* group of the message, the hands of the data loader and the guess texts. *)
(***************************************************************************)
WordleMaxAttempts == 2

\* who sends the command where: two users in one group, one of them also privately
Senders == {<<"u1", "g1">>, <<"u2", "g1">>, <<"u2", NoneStr>>}

\* a complete 14-tile hand as generate_valid_hands stores it, and a 13-tile tenpai hand
HandsData == {
  <<"1", "2", "3", "m", "1", "1", "1", "2", "2", "2", "3", "3", "3", "4", "4", "z">>,
  <<"1", "2", "3", "m", "1", "1", "1", "2", "2", "2", "3", "3", "3", "4", "z">>}

\* the hands themselves, and other texts of 14 and 13 tiles
GuessTexts == HandsData \cup {
  <<"1", "2", "3", "m", "1", "1", "1", "2", "2", "2", "3", "3", "3", "4", "5", "z">>,
  <<"1", "2", "3", "m", " ", "1", "1", "1", "2", "2", "2", "3", "3", "3", "5", "z">>}

GameOf(games, key) == IF Registered(games, key) THEN games[key] ELSE None

\* what helper.calculate_shanten answers in check_guess, when check_guess gets that far
HelperAnswers(games, game_key, guess_str) ==
  LET guess_tiles == _parse_guess(guess_str)
      asked == IF ~Registered(games, game_key) THEN FALSE
               ELSE IF games[game_key].completed THEN FALSE
               ELSE Len(guess_tiles) = Len(games[game_key].target_tiles)
  IN IF asked THEN GuessShantenOutcomes(GuessGroups(guess_tiles)) ELSE {None}

WordleInit ==
  /\ hand_str = <<>>
  /\ pc = "idle"
  /\ hand_components = None
  /\ tiles_136 = None
  /\ tiles_34 = None
  /\ total_tiles = None
  /\ shanten_result = None
  /\ result = None
  /\ win_tile = None
  /\ dep = None
  /\ u_tiles_34 = None
  /\ current_shanten = None
  /\ ukeire_results = <<>>
  /\ discard_pos = 0
  /\ ukeire = 0
  /\ u_waiting = <<>>
  /\ try_tile = 0
  /\ original_tiles_34 = None
  /\ waiting_tiles = <<>>
  /\ best_tiles = <<>>
  /\ best_shanten = None
  /\ CallsIdle
  /\ WordleIdle

\* w_ret is the last call: before and after are the game of its key when start_game or
\* check_guess was entered and when it returned or raised
\* handle_wordle without a guess: self.wordle.start_game(user_id, group_id)
HandleStart(user_id, group_id) ==
  /\ \E hand \in HandsData :
       LET game_key == _get_game_key(user_id, group_id)
           r == start_game(wordle_games, user_id, group_id, hand, WordleMaxAttempts)
       IN /\ wordle_games' = r.games
          /\ w_ret' = [op |-> "start", user_id |-> user_id, game_key |-> game_key,
                       guess_str |-> <<>>,
                       raised |-> r.raised, before |-> GameOf(wordle_games, game_key),
                       after |-> GameOf(r.games, game_key)]
  /\ UNCHANGED <<vars_single, callVars, multi_games, sub_games, gen>>

\* handle_wordle with a guess: check_guess, generate_image (image_ok: it does not
\* raise), and the deletion of a completed game
HandleGuess(user_id, group_id, guess_str) ==
  /\ \E sr \in HelperAnswers(wordle_games, _get_game_key(user_id, group_id), guess_str) :
       LET game_key == _get_game_key(user_id, group_id)
           r == check_guess(wordle_games, user_id, guess_str, group_id, sr)
           completed == IF r.raised = NoneStr THEN r.games[game_key].completed ELSE FALSE
       IN /\ \E image_ok \in BOOLEAN :
               wordle_games' = IF completed /\ image_ok THEN Del(r.games, game_key)
                               ELSE r.games
          /\ w_ret' = [op |-> "guess", user_id |-> user_id, game_key |-> game_key,
                       guess_str |-> guess_str,
                       raised |-> r.raised, before |-> GameOf(wordle_games, game_key),
                       after |-> GameOf(r.games, game_key)]
  /\ UNCHANGED <<vars_single, callVars, multi_games, sub_games, gen>>

WordleNext ==
  \E sender \in Senders :
    \/ HandleStart(sender[1], sender[2])
    \/ \E guess_str \in GuessTexts : HandleGuess(sender[1], sender[2], guess_str)

WordleSpec == WordleInit /\ [][WordleNext]_vars

\* hand texts of the calls: a complete hand, a tenpai hand, a 14-tile hand to discard from
CallTexts ==
  {<<"1", "1", "1", "2", "2", "2", "3", "3", "3", "z", "4", "4", "4", "5", "5", "z">>,
   <<"1", "1", "1", "2", "2", "2", "3", "3", "3", "z", "4", "4", "4", "5", "z">>,
   <<"1", "1", "1", "2", "2", "2", "3", "3", "3", "z", "4", "4", "5", "6", "z", "7", "z">>}

\* the answers of the HandCalculator kept for the calls
CallDepOutcomes == {o \in DepOutcomes : o.kind # "ok" \/ o.han = 1}

CallsInit ==
  /\ hand_str = BaseHands[1]
  /\ pc = "parse"
  /\ hand_components = None
  /\ tiles_136 = None
  /\ tiles_34 = None
  /\ total_tiles = None
  /\ shanten_result = None
  /\ result = None
  /\ win_tile = None
  /\ dep = None
  /\ u_tiles_34 = None
  /\ current_shanten = None
  /\ ukeire_results = <<>>
  /\ discard_pos = 0
  /\ ukeire = 0
  /\ u_waiting = <<>>
  /\ try_tile = 0
  /\ original_tiles_34 = None
  /\ waiting_tiles = <<>>
  /\ best_tiles = <<>>
  /\ best_shanten = None
  /\ shanten_tiles = None
  /\ calls = [i \in Calls |-> IdleCall]
  /\ calc_out \in CallDepOutcomes
  /\ WordleIdle

\* analyze_hand is entered: parse, convert, and the Shanten object stores the array
CallBegin(i) ==
  /\ calls[i].pc = "idle"
  /\ IF i = 1 THEN TRUE ELSE calls[i - 1].pc # "idle"
  /\ \E t \in CallTexts :
       LET c == to_34_array(string_to_136_array(parse_hand(t)))
       IN /\ calls' = [calls EXCEPT ![i] = [IdleCall EXCEPT !.text = t, !.pc = "shanten",
                                                            !.tiles_34 = c]]
          /\ shanten_tiles' = ShantenObjInit(shanten_tiles, c)
  /\ UNCHANGED <<vars_single, calc_out>>
  /\ UNCHANGED wordleVars

\* the scan of the stored array gives the call its shanten
CallShanten(i) ==
  /\ calls[i].pc = "shanten"
  /\ calls' = [calls EXCEPT ![i].pc = "dispatch",
                            ![i].shanten = ShantenObjRead(shanten_tiles, calls[i].tiles_34)]
  /\ UNCHANGED <<vars_single, shanten_tiles, calc_out>>
  /\ UNCHANGED wordleVars

\* the branch of the call runs and the call returns
CallFinish(i) ==
  /\ calls[i].pc = "dispatch"
  /\ calls' = [calls EXCEPT ![i].pc = "done",
                            ![i].result = AnalyzeRest(calls[i].text, calls[i].tiles_34,
                                                      calls[i].shanten, calc_out)]
  /\ shanten_tiles' = LastProbe(shanten_tiles, calls[i].tiles_34, calls[i].shanten)
  /\ UNCHANGED <<vars_single, calc_out>>
  /\ UNCHANGED wordleVars

\* no call is between its entry and its return
NoCallRunning == \A j \in Calls : calls[j].pc \in {"idle", "done"}

\* the command handler runs analyze_hand without awaiting: a call starts when none runs
SeqBegin(i) == NoCallRunning /\ CallBegin(i)

SeqNext == \E i \in Calls : SeqBegin(i) \/ CallShanten(i) \/ CallFinish(i)

SeqSpec == CallsInit /\ [][SeqNext]_vars

\* the first two calls made from two threads: a call starts at any time
ThreadCalls == {i \in Calls : i <= 2}

ConcNext == \E i \in ThreadCalls : CallBegin(i) \/ CallShanten(i) \/ CallFinish(i)

ConcSpec == CallsInit /\ [][ConcNext]_vars

(***************************************************************************)
(* The multi-hand game: multi_games is MultiMahjongWordle.current_games    *)
(* and sub_games[i] is games[i].current_games.  The game_states entry of a *)
(* multi-game state holds the very dicts of the sub-games and is read from *)
(* sub_games.                                                              *)
(***************************************************************************)
NumGames == 2

MultiMaxAttempts == 3

\* who sends the command where
MultiSenders == {<<"u1", "g1">>}

\* three 13-tile tenpai hands
MultiHandsData ==
  <<<<"1", "2", "3", "m", "1", "1", "1", "2", "2", "2", "3", "3", "3", "4", "z">>,
    <<"1", "2", "3", "m", "1", "1", "1", "2", "2", "2", "3", "3", "3", "5", "z">>,
    <<"1", "2", "3", "m", "1", "1", "1", "2", "2", "2", "3", "3", "3", "6", "z">>>>

\* what the draws of start_games (at most 20) end with: num_games different hands,
\* or fewer of them
MultiDraws ==
  {[raised |-> NoneStr, hands_data |-> SubSeq(MultiHandsData, 1, NumGames)],
   [raised |-> "not_enough_hands", hands_data |-> <<>>]}

\* two of the hands, a text of 14 tiles and a 13-tile text that is not tenpai
MultiGuessTexts ==
  {MultiHandsData[1], MultiHandsData[2],
   <<"1", "2", "3", "m", "1", "1", "1", "2", "2", "2", "3", "3", "3", "4", "4", "z">>,
   <<"1", "4", "7", "m", "2", "5", "8", "p", "3", "6", "9", "s", "1", "2", "3", "4", "z">>}

\* start_games, lines 98-129: the state of sub-game i
NewSubGameState(hand, user_id, max_attempts) ==
  [hand_data |-> [hand |-> hand], target_tiles |-> _parse_hand_tiles(hand),
   guesses |-> <<>>, max_attempts |-> max_attempts, completed |-> FALSE, win |-> FALSE,
   started_by |-> user_id, last_guess_by |-> NoneStr]

\* start_games with draw what the draws ended with: [multi, subs, raised]
start_games(multi, subs, user_id, group_id, draw, max_attempts) ==
  LET game_key == _get_game_key(user_id, group_id)
  IN IF Registered(multi, game_key)
     THEN [multi |-> multi, subs |-> subs, raised |-> "game_in_progress"]
     ELSE IF draw.raised # NoneStr
     THEN [multi |-> multi, subs |-> subs, raised |-> draw.raised]
     ELSE [multi |-> Put(multi, game_key,
                         [guesses |-> <<>>, max_attempts |-> max_attempts,
                          completed |-> FALSE, win_count |-> 0,
                          started_by |-> user_id, last_guess_by |-> NoneStr]),
           subs |-> [i \in 1 .. Len(subs) |->
                       Put(subs[i], game_key,
                           NewSubGameState(draw.hands_data[i], user_id, max_attempts))],
           raised |-> NoneStr]

\* any(guess.get("correct", False) for guess in game_state["guesses"])
AnyCorrect(game_state) ==
  \E k \in 1 .. Len(game_state.guesses) : game_state.guesses[k].correct

\* the loop of the multi-game check_guess, lines 185-204, from sub-game i on
RECURSIVE MultiLoop(_, _, _, _, _, _, _, _)
MultiLoop(subs, i, user_id, guess_str, group_id, srs, results, correct_count) ==
  IF i > Len(subs)
  THEN [subs |-> subs, results |-> results, correct_count |-> correct_count]
  ELSE LET game_key == _get_game_key(user_id, group_id)
           solved == IF Registered(subs[i], game_key)
                     THEN AnyCorrect(subs[i][game_key]) ELSE FALSE
       IN IF solved
          THEN MultiLoop(subs, i + 1, user_id, guess_str, group_id, srs,
                         Append(results, "already_correct"), correct_count + 1)
          ELSE LET r == check_guess(subs[i], user_id, guess_str, group_id, srs[i])
                   correct == IF r.raised = NoneStr THEN r.guess_record.correct ELSE FALSE
               IN MultiLoop([subs EXCEPT ![i] = r.games], i + 1, user_id, guess_str,
                            group_id, srs,
                            Append(results, IF r.raised # NoneStr THEN r.raised
                                            ELSE IF correct THEN "correct" ELSE "recorded"),
                            IF correct THEN correct_count + 1 ELSE correct_count)

\* lines 169-173 without the deletion of the sub-game states
MultiCleanup_KeepsSubGames(multi, subs, game_key) ==
  [multi |-> Del(multi, game_key), subs |-> subs, raised |-> "game_over"]

\* the multi-game check_guess on a completed game, lines 167-174
MultiCleanup(multi, subs, game_key) ==
  [multi |-> Del(multi, game_key),
   subs |-> [i \in 1 .. Len(subs) |-> Del(subs[i], game_key)],
   raised |-> "game_over"]

\* lines 207-217 with a win_count that adds up over the calls
MultiRecord_AddsUp(multi_game_state, entry, correct_count, num_games) ==
  LET guesses == Append(multi_game_state.guesses, entry)
      ended == correct_count = num_games \/ Len(guesses) >= multi_game_state.max_attempts
  IN [multi_game_state EXCEPT !.guesses = guesses,
                              !.last_guess_by = entry.user_id,
                              !.win_count = @ + correct_count,
                              !.completed = IF ended THEN TRUE ELSE @]

\* the multi-game check_guess, lines 207-217: the guess is recorded and the game may end
MultiRecord(multi_game_state, entry, correct_count, num_games) ==
  LET guesses == Append(multi_game_state.guesses, entry)
      ended == correct_count = num_games \/ Len(guesses) >= multi_game_state.max_attempts
  IN [multi_game_state EXCEPT !.guesses = guesses,
                              !.last_guess_by = entry.user_id,
                              !.win_count = correct_count,
                              !.completed = IF ended THEN TRUE ELSE @]

\* the multi-game check_guess with srs[i] the answer of the helper of sub-game i:
\* [multi, subs, raised]
multi_check_guess(multi, subs, user_id, guess_str, group_id, srs) ==
  LET game_key == _get_game_key(user_id, group_id)
  IN IF ~Registered(multi, game_key)
     THEN [multi |-> multi, subs |-> subs, raised |-> "no_game"]
     ELSE IF multi[game_key].completed
     THEN MultiCleanup(multi, subs, game_key)
     ELSE IF Len(multi[game_key].guesses) >= multi[game_key].max_attempts
     THEN [multi |-> [multi EXCEPT ![game_key].completed = TRUE], subs |-> subs,
           raised |-> "max_attempts_reached"]
     ELSE
       LET loop == MultiLoop(subs, 1, user_id, guess_str, group_id, srs, <<>>, 0)
           entry == [guess_str |-> guess_str, results |-> loop.results, user_id |-> user_id]
       IN [multi |-> Put(multi, game_key,
                         MultiRecord(multi[game_key], entry, loop.correct_count, Len(subs))),
           subs |-> loop.subs,
           raised |-> NoneStr]

\* the multi-game of a key and its sub-games
MultiOf(multi, subs, game_key) ==
  [multi |-> GameOf(multi, game_key),
   subs |-> [i \in 1 .. Len(subs) |-> GameOf(subs[i], game_key)]]

\* the answers of the helpers of the sub-games that get to ask
MultiHelperAnswers(multi, subs, game_key, guess_str) ==
  LET asked == IF Registered(multi, game_key) THEN ~multi[game_key].completed ELSE FALSE
      answers(i) == IF asked THEN HelperAnswers(subs[i], game_key, guess_str) ELSE {None}
  IN {srs \in [1 .. Len(subs) -> UNION {answers(i) : i \in 1 .. Len(subs)}] :
        \A i \in 1 .. Len(subs) : srs[i] \in answers(i)}

MultiInit ==
  /\ hand_str = <<>>
  /\ pc = "idle"
  /\ hand_components = None
  /\ tiles_136 = None
  /\ tiles_34 = None
  /\ total_tiles = None
  /\ shanten_result = None
  /\ result = None
  /\ win_tile = None
  /\ dep = None
  /\ u_tiles_34 = None
  /\ current_shanten = None
  /\ ukeire_results = <<>>
  /\ discard_pos = 0
  /\ ukeire = 0
  /\ u_waiting = <<>>
  /\ try_tile = 0
  /\ original_tiles_34 = None
  /\ waiting_tiles = <<>>
  /\ best_tiles = <<>>
  /\ best_shanten = None
  /\ CallsIdle
  /\ wordle_games = <<>>
  /\ multi_games = <<>>
  /\ sub_games = [i \in 1 .. NumGames |-> <<>>]
  /\ w_ret = None
  /\ gen = None

\* handle_multi_wordle without a guess: self.multi_wordle.start_games(user_id, group_id)
HandleMultiStart(user_id, group_id) ==
  /\ \E draw \in MultiDraws :
       LET game_key == _get_game_key(user_id, group_id)
           r == start_games(multi_games, sub_games, user_id, group_id, draw,
                            MultiMaxAttempts)
       IN /\ multi_games' = r.multi
          /\ sub_games' = r.subs
          /\ w_ret' = [op |-> "start_games", user_id |-> user_id, game_key |-> game_key,
                       guess_str |-> <<>>, raised |-> r.raised,
                       before |-> MultiOf(multi_games, sub_games, game_key),
                       after |-> MultiOf(r.multi, r.subs, game_key)]
  /\ UNCHANGED <<vars_single, callVars, wordle_games, gen>>

\* handle_multi_wordle with a guess: self.multi_wordle.check_guess(user_id, args, group_id)
HandleMultiGuess(user_id, group_id, guess_str) ==
  /\ \E srs \in MultiHelperAnswers(multi_games, sub_games,
                                   _get_game_key(user_id, group_id), guess_str) :
       LET game_key == _get_game_key(user_id, group_id)
           r == multi_check_guess(multi_games, sub_games, user_id, guess_str, group_id, srs)
       IN /\ multi_games' = r.multi
          /\ sub_games' = r.subs
          /\ w_ret' = [op |-> "multi_guess", user_id |-> user_id, game_key |-> game_key,
                       guess_str |-> guess_str, raised |-> r.raised,
                       before |-> MultiOf(multi_games, sub_games, game_key),
                       after |-> MultiOf(r.multi, r.subs, game_key)]
  /\ UNCHANGED <<vars_single, callVars, wordle_games, gen>>

MultiNext ==
  \E sender \in MultiSenders :
    \/ HandleMultiStart(sender[1], sender[2])
    \/ \E guess_str \in MultiGuessTexts : HandleMultiGuess(sender[1], sender[2], guess_str)

MultiSpec == MultiInit /\ [][MultiNext]_vars

(***************************************************************************)
(* The feedback of check_guess as a function of the guess and the target,  *)
(* which have the same number of tiles when check_guess gets that far.     *)
(***************************************************************************)
FeedbackLen == 3

FeedbackTiles == {<<"1", "m">>, <<"2", "m">>, <<"1", "z">>}

FeedbackInit ==
  /\ hand_str = <<>>
  /\ pc = "idle"
  /\ hand_components = None
  /\ tiles_136 = None
  /\ tiles_34 = None
  /\ total_tiles = None
  /\ shanten_result = None
  /\ result = None
  /\ win_tile = None
  /\ dep = None
  /\ u_tiles_34 = None
  /\ current_shanten = None
  /\ ukeire_results = <<>>
  /\ discard_pos = 0
  /\ ukeire = 0
  /\ u_waiting = <<>>
  /\ try_tile = 0
  /\ original_tiles_34 = None
  /\ waiting_tiles = <<>>
  /\ best_tiles = <<>>
  /\ best_shanten = None
  /\ CallsIdle
  /\ wordle_games = <<>>
  /\ multi_games = <<>>
  /\ sub_games = <<>>
  /\ gen = None
  /\ \E n \in 1 .. FeedbackLen :
       \E guess_tiles \in [1 .. n -> FeedbackTiles], target_tiles \in [1 .. n -> FeedbackTiles] :
         w_ret = [op |-> "feedback", guess_tiles |-> guess_tiles,
                  target_tiles |-> target_tiles, checked |-> FALSE,
                  result_tiles |-> <<>>]

\* check_guess, lines 206-228
FeedbackApply ==
  /\ ~w_ret.checked
  /\ w_ret' = [w_ret EXCEPT !.checked = TRUE,
                           !.result_tiles = CheckTiles(w_ret.guess_tiles, w_ret.target_tiles)]
  /\ UNCHANGED <<vars_single, callVars, wordle_games, multi_games, sub_games, gen>>

FeedbackNext == FeedbackApply

FeedbackSpec == FeedbackInit /\ [][FeedbackNext]_vars

(***************************************************************************)
(* generate_valid_hands (the library-refresh command calls it with         *)
(* limit = number).  gen holds its locals: limit, valid_hands, attempts,   *)
(* those of the last attempt, and the returned text.                       *)
(***************************************************************************)
GenMaxAttempts == 3

MaxLimit == 2

\* parts[suit] of generate_mentsu_based_hand, sorted, as digit characters
RECURSIVE SortedDigits(_, _)
SortedDigits(numbers, d) ==
  IF d > SuitSize THEN <<>>
  ELSE [k \in 1 .. CountIn(numbers, d) |-> CHOOSE ch \in DigitChars : IntOf(ch) = d]
         \o SortedDigits(numbers, d + 1)

RECURSIVE MentsuParts(_, _, _)
MentsuParts(mentsu, suit, i) ==
  IF i > Len(mentsu) THEN <<>>
  ELSE (IF mentsu[i].suit # suit THEN <<>>
        ELSE IF mentsu[i].suit # "z" /\ mentsu[i].is_shuntsu
        THEN <<mentsu[i].number, mentsu[i].number + 1, mentsu[i].number + 2>>
        ELSE <<mentsu[i].number, mentsu[i].number, mentsu[i].number>>)
         \o MentsuParts(mentsu, suit, i + 1)

\* generate_mentsu_based_hand for the drawn head and the four drawn mentsu
generate_mentsu_based_hand(head, mentsu) ==
  LET part(suit) ==
        LET numbers == (IF head.suit = suit THEN <<head.number, head.number>> ELSE <<>>)
                         \o MentsuParts(mentsu, suit, 1)
        IN IF numbers = <<>> THEN <<>> ELSE SortedDigits(numbers, 1) \o <<suit>>
  IN part("m") \o part("p") \o part("s") \o part("z")

\* some of the draws of random.choice / randint / random in generate_mentsu_based_hand
MentsuDraws ==
  LET M(suit, is_shuntsu, number) ==
        [suit |-> suit, is_shuntsu |-> is_shuntsu, number |-> number]
  IN {[head |-> [suit |-> "z", number |-> 4],
       mentsu |-> <<M("m", TRUE, 1), M("z", FALSE, 1), M("z", FALSE, 2), M("z", FALSE, 3)>>],
      [head |-> [suit |-> "m", number |-> 1],
       mentsu |-> <<M("m", FALSE, 1), M("p", TRUE, 4), M("s", TRUE, 7), M("z", FALSE, 1)>>],
      [head |-> [suit |-> "s", number |-> 5],
       mentsu |-> <<M("m", TRUE, 1), M("m", TRUE, 1), M("p", FALSE, 9), M("z", FALSE, 7)>>]}

\* the parameters of PaiAnalyzer.analyze_hand besides self, and the keywords
\* generate_valid_hands passes besides the text
AnalyzeHandParams == {"hand_str"}

GenCallKeywords == {"round_wind", "player_wind"}

\* analyze_hand(full_hand_str, ...): a keyword the method does not have raises TypeError
GenAnalysis(full_hand_str, out) ==
  IF ~(GenCallKeywords \subseteq AnalyzeHandParams) THEN [raised |-> TRUE, result |-> None]
  ELSE LET tiles == string_to_136_array(parse_hand(full_hand_str))
       IN [raised |-> FALSE,
           result |-> IF To34Raises(tiles) THEN FailedResult(full_hand_str)
                      ELSE AnalyzeRest(full_hand_str, to_34_array(tiles),
                                       Shanten(to_34_array(tiles)), out)]

\* lines 149-152
GenValid(a) ==
  IF a.raised THEN FALSE
  ELSE IF ~a.result.success THEN FALSE
  ELSE IF a.result.hand_value = None THEN FALSE
  ELSE a.result.hand_value.success /\ Len(a.result.hand_value.yaku) > 0

GenInit ==
  /\ hand_str = <<>>
  /\ pc = "idle"
  /\ hand_components = None
  /\ tiles_136 = None
  /\ tiles_34 = None
  /\ total_tiles = None
  /\ shanten_result = None
  /\ result = None
  /\ win_tile = None
  /\ dep = None
  /\ u_tiles_34 = None
  /\ current_shanten = None
  /\ ukeire_results = <<>>
  /\ discard_pos = 0
  /\ ukeire = 0
  /\ u_waiting = <<>>
  /\ try_tile = 0
  /\ original_tiles_34 = None
  /\ waiting_tiles = <<>>
  /\ best_tiles = <<>>
  /\ best_shanten = None
  /\ CallsIdle
  /\ wordle_games = <<>>
  /\ multi_games = <<>>
  /\ sub_games = <<>>
  /\ w_ret = None
  /\ \E limit \in 1 .. MaxLimit :
       gen = [pc |-> "loop", limit |-> limit, valid_hands |-> <<>>, attempts |-> 0,
              hand_str |-> <<>>, win_tile_str |-> <<>>, round_wind |-> 0,
              player_wind |-> 0, raised |-> FALSE, returned |-> NoneStr]

\* one pass of the while loop, lines 102-181
GenAttempt ==
  /\ gen.pc = "loop"
  /\ Len(gen.valid_hands) < gen.limit
  /\ gen.attempts < GenMaxAttempts
  /\ \E draw \in MentsuDraws, round_wind \in 1 .. 2, player_wind \in 1 .. 4 :
       LET hand == generate_mentsu_based_hand(draw.head, draw.mentsu)
           hand_tiles == _parse_hand_tiles(hand)
       IN \E win_tile_str \in {hand_tiles[k] : k \in 1 .. Len(hand_tiles)} :
            \E out \in (IF GenCallKeywords \subseteq AnalyzeHandParams
                        THEN CallDepOutcomes ELSE {None}) :
              LET a == GenAnalysis(hand \o <<win_tile_str[1]>>, out)
              IN gen' = [gen EXCEPT
                           !.hand_str = hand,
                           !.win_tile_str = win_tile_str,
                           !.round_wind = round_wind,
                           !.player_wind = player_wind,
                           !.raised = a.raised,
                           !.attempts = IF GenValid(a) THEN 0 ELSE @ + 1,
                           !.valid_hands =
                             IF GenValid(a)
                             THEN Append(@, [hand |-> hand, win_tile |-> win_tile_str,
                                             han |-> a.result.hand_value.han,
                                             fu |-> a.result.hand_value.fu,
                                             yaku |-> a.result.hand_value.yaku])
                             ELSE @]
  /\ UNCHANGED <<vars_single, callVars, wordle_games, multi_games, sub_games, w_ret>>

\* the loop has ended: lines 183-192 (save_ok: writing the file does not raise)
GenReturn ==
  /\ gen.pc = "loop"
  /\ ~(Len(gen.valid_hands) < gen.limit /\ gen.attempts < GenMaxAttempts)
  /\ \E save_ok \in (IF gen.valid_hands = <<>> THEN {TRUE} ELSE BOOLEAN) :
       gen' = [gen EXCEPT !.pc = "done",
                          !.returned = IF gen.valid_hands = <<>> THEN "generate_failed"
                                       ELSE IF save_ok THEN "generate_ok"
                                       ELSE "save_failed"]
  /\ UNCHANGED <<vars_single, callVars, wordle_games, multi_games, sub_games, w_ret>>

GenNext == GenAttempt \/ GenReturn

GenSpec == GenInit /\ [][GenNext]_vars

(***************************************************************************)
(* Properties.  The hand of a text is described here from the text and the *)
(* shanten function alone, not from the locals of the loops.               *)
(***************************************************************************)
Markers == {"m", "M", "p", "P", "s", "S", "z", "Z"}

\* the digits of the text that a later suit marker collects
TextTileCount(text) ==
  Cardinality({i \in 1 .. Len(text) :
                 /\ text[i] \in DigitChars
                 /\ \E j \in (i + 1) .. Len(text) : text[j] \in Markers})

TextCounts(text) == to_34_array(string_to_136_array(parse_hand(text)))

Done == pc = "done"

\* the call returned from the body of the try block, not from its except clause
Returned == Done /\ result.shanten # None

Pairs(ws) == {<<ws[i].tile_index, ws[i].count>> : i \in 1 .. Len(ws)}

Indexes(ws) == {ws[i].tile_index : i \in 1 .. Len(ws)}

Addable(c) == {t \in Kinds : c[t] < CopiesPerKind}

Waits(c) == {t \in Addable(c) : Shanten(Inc(c, t)) = -1}

MinAdvance(c) == SetMin({Shanten(Inc(c, t)) : t \in Addable(c)})

BestAdvance(c) ==
  LET m == MinAdvance(c) IN {t \in Addable(c) : Shanten(Inc(c, t)) = m}

\* the draws that improve the hand after discarding d
Improving(c, d) ==
  LET sh == Shanten(c)
      c13 == Dec(c, d)
  IN {t \in Addable(c13) : Shanten(Inc(c13, t)) < sh}

RECURSIVE SumOver(_, _)
SumOver(S, f) ==
  IF S = {} THEN 0
  ELSE LET x == CHOOSE y \in S : TRUE IN f[x] + SumOver(S \ {x}, f)

OptionFor(d) ==
  {i \in 1 .. Len(result.ukeire.options) : result.ukeire.options[i].tile_index = d}

(* C1: a hand text whose total tile count is neither 13 nor 14 gets a      *)
(* result with success = false and an error message, and no branch         *)
(* payload: no hand_value, no ukeire, an empty waiting_tiles list.         *)
C1_BadCountIsError ==
  (Done /\ TextTileCount(hand_str) \notin {13, 14}) =>
    /\ result.success = FALSE
    /\ result.error # NoneStr
    /\ result.hand_value = None
    /\ result.ukeire = None
    /\ result.waiting_tiles = <<>>

C1_Witness ==
  /\ Done
  /\ TextTileCount(hand_str) = 12
  /\ result.total_tiles = 12
  /\ result.success = FALSE

(* C2: analyze_hand dispatches on (total tile count, shanten) to exactly   *)
(* one branch: 14 tiles and shanten -1 fill only hand_value; 14 tiles and  *)
(* shanten >= 0 fill only ukeire; 13 tiles and shanten 0 fill only         *)
(* waiting_tiles, with the waits; 13 tiles and shanten > 0 fill only       *)
(* waiting_tiles, with the best-advance tiles.                             *)
C2_Dispatch ==
  (Returned /\ TextTileCount(hand_str) \in {13, 14}) =>
    LET c == TextCounts(hand_str)
        sh == Shanten(c)
    IN /\ result.success = TRUE
       /\ (TextTileCount(hand_str) = 14 /\ sh = -1) =>
            /\ result.hand_value # None
            /\ result.ukeire = None
            /\ result.waiting_tiles = <<>>
       /\ (TextTileCount(hand_str) = 14 /\ sh >= 0) =>
            /\ result.ukeire # None
            /\ result.hand_value = None
            /\ result.waiting_tiles = <<>>
       /\ (TextTileCount(hand_str) = 13 /\ sh = 0) =>
            /\ Indexes(result.waiting_tiles) = Waits(c)
            /\ result.hand_value = None
            /\ result.ukeire = None
       /\ (TextTileCount(hand_str) = 13 /\ sh > 0) =>
            /\ Indexes(result.waiting_tiles) = BestAdvance(c)
            /\ result.hand_value = None
            /\ result.ukeire = None

C2_Witness ==
  /\ Returned
  /\ result.total_tiles = 14
  /\ result.shanten.shanten = 0
  /\ result.ukeire # None
  /\ result.hand_value = None

(* C3: for a 13-tile hand with shanten 0 the waiting_tiles are exactly the *)
(* kinds t with fewer than 4 copies in the hand whose addition gives a     *)
(* 14-tile hand of shanten -1, each once, each with count = 4 minus the    *)
(* copies of t in the 13-tile hand.                                        *)
C3_WaitsExact ==
  (Returned /\ result.total_tiles = 13 /\ result.shanten.shanten = 0) =>
    LET c == TextCounts(hand_str)
    IN /\ Pairs(result.waiting_tiles) = {<<t, CopiesPerKind - c[t]>> : t \in Waits(c)}
       /\ Len(result.waiting_tiles) = Cardinality(Waits(c))

\* a tenpai hand with a wait, holding all four copies of another kind
C3_Witness ==
  /\ Returned
  /\ result.total_tiles = 13
  /\ result.shanten.shanten = 0
  /\ Len(result.waiting_tiles) >= 1
  /\ \E t \in Kinds : TextCounts(hand_str)[t] = CopiesPerKind
  /\ \E i \in 1 .. Len(result.waiting_tiles) : result.waiting_tiles[i].count < CopiesPerKind

(* C4: calculate_ukeire on a 14-tile hand: for every kind d of the hand,   *)
(* the waits recorded for discarding d are exactly the kinds t with fewer  *)
(* than 4 copies after the discard and shanten(hand - d + t) <             *)
(* shanten(hand); the count recorded for t is 4 minus the copies of t in   *)
(* the 13 tiles left, and the option's ukeire is the sum of these counts.  *)
C4_UkeireExact ==
  (Returned /\ result.ukeire # None) =>
    LET c == TextCounts(hand_str)
    IN \A d \in {k \in Kinds : c[k] > 0} :
         LET c13 == Dec(c, d)
             W == Improving(c, d)
             left == [t \in Kinds |-> CopiesPerKind - c13[t]]
         IN /\ \A i \in OptionFor(d) :
                 /\ Pairs(result.ukeire.options[i].waiting) = {<<t, left[t]>> : t \in W}
                 /\ Len(result.ukeire.options[i].waiting) = Cardinality(W)
                 /\ result.ukeire.options[i].ukeire = SumOver(W, left)
            /\ OptionFor(d) = {} => W = {}

C4_Witness ==
  /\ Returned
  /\ result.ukeire # None
  /\ result.ukeire.success
  /\ \E i \in 1 .. Len(result.ukeire.options) :
       /\ Len(result.ukeire.options[i].waiting) >= 2
       /\ \E j \in 1 .. Len(result.ukeire.options[i].waiting) :
            result.ukeire.options[i].waiting[j].count < CopiesPerKind

(* C5: the options of calculate_ukeire contain a discard if and only if    *)
(* it has at least one improving draw (ukeire > 0), each once, ordered by  *)
(* descending ukeire and, among equal ukeire, by ascending tile index.     *)
C5_OptionsSorted ==
  (Returned /\ result.ukeire # None) =>
    LET c == TextCounts(hand_str)
        opts == result.ukeire.options
    IN /\ {opts[i].tile_index : i \in 1 .. Len(opts)}
            = {d \in Kinds : c[d] > 0 /\ Improving(c, d) # {}}
       /\ \A i \in 1 .. Len(opts) : opts[i].ukeire > 0
       /\ \A i, j \in 1 .. Len(opts) :
            i < j =>
              \/ opts[i].ukeire > opts[j].ukeire
              \/ opts[i].ukeire = opts[j].ukeire /\ opts[i].tile_index < opts[j].tile_index

\* the sort changed the loop order, and two options tie on ukeire
C5_Witness ==
  /\ Returned
  /\ result.ukeire # None
  /\ Len(result.ukeire.options) >= 3
  /\ \E i \in 1 .. Len(result.ukeire.options) - 1 :
       result.ukeire.options[i].tile_index > result.ukeire.options[i + 1].tile_index

(* C6: for a 13-tile hand with shanten > 0 the waiting_tiles are all and   *)
(* only the addable kinds (fewer than 4 copies in the hand) whose addition *)
(* reaches the minimum shanten over all addable kinds, each once; a tile   *)
(* recorded before a strictly better one was found is not among them.      *)
C6_BestAdvanceExact ==
  (Returned /\ result.total_tiles = 13 /\ result.shanten.shanten > 0) =>
    LET c == TextCounts(hand_str)
    IN /\ Indexes(result.waiting_tiles) = BestAdvance(c)
       /\ Len(result.waiting_tiles) = Cardinality(BestAdvance(c))
       /\ \A i \in 1 .. Len(result.waiting_tiles) :
            result.waiting_tiles[i].count
              = CopiesPerKind - c[result.waiting_tiles[i].tile_index]

\* several tiles tie at the minimum, and an earlier tile that only kept the
\* shanten of the hand was recorded and then dropped
C6_Witness ==
  /\ Returned
  /\ result.total_tiles = 13
  /\ result.shanten.shanten > 0
  /\ Len(result.waiting_tiles) >= 2
  /\ LET c == TextCounts(hand_str)
     IN \E t \in Addable(c) :
          /\ Shanten(Inc(c, t)) = result.shanten.shanten
          /\ t < result.waiting_tiles[1].tile_index
          /\ t \notin Indexes(result.waiting_tiles)

\* the dependency reported a complete hand without yaku
NoYakuReported == Done /\ dep # None /\ dep.kind = "error" /\ dep.error = "no_yaku"

(* C7, as claimed: for a complete 14-tile hand for which the scoring       *)
(* dependency reports no applicable yaku, the hand_value sub-result has    *)
(* success = true, han = 0 and an empty yaku list.                         *)
C7_NoYakuIsSuccess ==
  NoYakuReported =>
    /\ result.hand_value # None
    /\ result.hand_value.success = TRUE
    /\ result.hand_value.han = 0
    /\ result.hand_value.yaku = <<>>

(* C7, amended: for a complete 14-tile hand for which the scoring          *)
(* dependency reports no applicable yaku, the overall result has success = *)
(* true, and the hand_value sub-result has success = false, the            *)
(* dependency's error as its error, han = 0 and an empty yaku list.        *)
C7_NoYakuIsSubError ==
  NoYakuReported =>
    /\ result.success = TRUE
    /\ result.error = NoneStr
    /\ result.hand_value # None
    /\ result.hand_value.success = FALSE
    /\ result.hand_value.error = dep.error
    /\ result.hand_value.han = 0
    /\ result.hand_value.yaku = <<>>
    /\ result.hand_value.is_yakuman = FALSE

C7_Witness ==
  /\ NoYakuReported
  /\ result.total_tiles = 14
  /\ result.shanten.shanten = -1
  /\ result.hand_value # None
  /\ result.hand_value.error = "no_yaku"

\* some kind is written more than 4 times in the text
TextOverfull(text) ==
  LET hc == parse_hand(text)
  IN \E g \in {"man", "pin", "sou", "honors"} :
       \E d \in DigitChars : CountIn(hc[g], d) > CopiesPerKind

(* C8: analyze_hand rejects with an error every hand text in which some    *)
(* tile kind appears more than 4 times; extra copies are not turned into   *)
(* other tiles, and every count array that reaches the shanten, ukeire or  *)
(* win evaluation has all 34 entries <= 4.                                 *)
C8_OverfullRejected ==
  /\ (Done /\ TextOverfull(hand_str)) => result.success = FALSE
  /\ (pc \notin {"parse", "convert"} /\ tiles_34 # None) =>
       \A t \in Kinds : tiles_34[t] <= CopiesPerKind

(* C9: when estimate_hand_value or calculate_ukeire fails, analyze_hand    *)
(* still returns an overall result with success = true, the total tile     *)
(* count and the shanten; only the affected sub-result carries success =   *)
(* false and the error message.                                            *)
SubResultFailed ==
  /\ Done
  /\ \/ result.hand_value # None /\ result.hand_value.success = FALSE
     \/ result.ukeire # None /\ result.ukeire.success = FALSE

C9_SubFailureKeepsResult ==
  (SubResultFailed \/ (Done /\ dep # None /\ dep.kind # "ok")) =>
    /\ SubResultFailed
    /\ result.hand_value # None
    /\ result.success = TRUE
    /\ result.error = NoneStr
    /\ result.total_tiles = TextTileCount(hand_str)
    /\ result.shanten # None
    /\ result.shanten.success = TRUE
    /\ result.shanten.shanten = Shanten(TextCounts(hand_str))
    /\ result.hand_value.error = dep.error
    /\ result.hand_value.error # NoneStr

C9_Witness ==
  /\ Done
  /\ dep # None
  /\ dep.kind = "raise"
  /\ SubResultFailed
  /\ result.success = TRUE

(* C10: for a 14-tile hand with shanten -1 the winning tile passed to the  *)
(* win-value evaluator is the last parsed tile of the first non-empty suit *)
(* group in the order man, pin, sou, honors; it is a function of the hand  *)
(* text and it is a tile of the hand.                                      *)
GroupOrder == <<"man", "pin", "sou", "honors">>

C10_WinTileChoice ==
  (pc \in {"estimate", "done"} /\ win_tile # None) =>
    LET hc == parse_hand(hand_str)
    IN /\ \E g \in 1 .. Len(GroupOrder) :
            /\ hc[GroupOrder[g]] # <<>>
            /\ \A h \in 1 .. (g - 1) : hc[GroupOrder[h]] = <<>>
            /\ win_tile.type = GroupOrder[g]
            /\ win_tile.value = hc[GroupOrder[g]][Len(hc[GroupOrder[g]])]
       /\ \E k \in 1 .. Len(tiles_136) : tiles_136[k] = win_tile.tile

\* a winning hand without man tiles: the tile comes from the pin group
C10_Witness ==
  /\ Done
  /\ win_tile # None
  /\ win_tile.type = "pin"
  /\ result.hand_value # None
  /\ Len(parse_hand(hand_str).pin) >= 2
  /\ win_tile.value # Head(parse_hand(hand_str).pin)

\* the group that a marker character flushes to
GroupOfMarker(ch) ==
  CASE Lower(ch) = "m" -> "man" [] Lower(ch) = "p" -> "pin"
    [] Lower(ch) = "s" -> "sou" [] OTHER -> "honors"

\* the group of the first marker after position i, "none" when there is none
OwnerGroup(text, i) ==
  LET js == {j \in (i + 1) .. Len(text) : text[j] \in Markers}
  IN IF js = {} THEN "none" ELSE GroupOfMarker(text[SetMin(js)])

\* the digits of the text owned by group g, in input order
RECURSIVE GroupDigitsFrom(_, _, _)
GroupDigitsFrom(text, g, i) ==
  IF i > Len(text) THEN <<>>
  ELSE IF text[i] \in DigitChars /\ OwnerGroup(text, i) = g
       THEN <<text[i]>> \o GroupDigitsFrom(text, g, i + 1)
       ELSE GroupDigitsFrom(text, g, i + 1)

GroupDigits(text, g) == GroupDigitsFrom(text, g, 1)

(* C11: parse_hand follows accumulate-then-flush: every digit is attached  *)
(* to the next suit marker (m, p, s, z in either case) after it, digits of *)
(* several runs before one marker go to that marker's group in input       *)
(* order, other characters are ignored without resetting the pending       *)
(* digits, and digits after the last marker belong to no group.            *)
C11_AccumulateThenFlush ==
  hand_components # None =>
    /\ hand_components.man = GroupDigits(hand_str, "man")
    /\ hand_components.pin = GroupDigits(hand_str, "pin")
    /\ hand_components.sou = GroupDigits(hand_str, "sou")
    /\ hand_components.honors = GroupDigits(hand_str, "honors")

\* two digit runs split by an unrecognised character, flushed by an upper-case marker
C11_Witness ==
  /\ hand_components # None
  /\ hand_str = <<"1", ",", "2", "P">>
  /\ hand_components.pin = <<"1", "2">>
  /\ hand_components.man = <<>>

(* C12: the probing loops keep the undo discipline: between two probes of  *)
(* a draw the working count array equals its value before the probe (the   *)
(* hand less the current discard in the ukeire search, the original hand   *)
(* in the waits and best-advance searches), after each probed discard and  *)
(* when a search has finished it equals the original hand counts, and the  *)
(* tile array tiles_136 stays the conversion of the parsed text.           *)
C12_UndoDiscipline ==
  /\ pc = "ukeire_try" => u_tiles_34 = Dec(to_34_array(tiles_136), discard_pos)
  /\ pc = "ukeire_discard" => u_tiles_34 = to_34_array(tiles_136)
  /\ (Done /\ u_tiles_34 # None) => u_tiles_34 = to_34_array(tiles_136)
  /\ pc \in {"waits", "advance"} =>
       /\ tiles_34 = original_tiles_34
       /\ tiles_34 = to_34_array(tiles_136)
  /\ (Done /\ original_tiles_34 # None) =>
       /\ tiles_34 = original_tiles_34
       /\ tiles_34 = to_34_array(tiles_136)
  /\ tiles_136 # None => tiles_136 = string_to_136_array(parse_hand(hand_str))

\* a finished waits search that found waits, with the array back at the hand
C12_Witness ==
  /\ Done
  /\ original_tiles_34 # None
  /\ Len(result.waiting_tiles) >= 2
  /\ result.shanten.shanten = 0
  /\ Sum34(tiles_34) = 13
  /\ tiles_34 = TextCounts(hand_str)

\* the result of a call on the text when no other call is made
AloneResult(text) ==
  AnalyzeRest(text, TextCounts(text), Shanten(TextCounts(text)), calc_out)

(* C13: concurrent analyze_hand calls do not interfere: under any          *)
(* interleaving of the calls, each call returns the result it returns      *)
(* when run alone.                                                         *)
C13_NoInterference ==
  \A i \in Calls :
    calls[i].pc = "done" => calls[i].result = AloneResult(calls[i].text)

(* C14: analyze_hand is deterministic and idempotent: two calls on the     *)
(* same hand text, in any order and with any other calls in between,       *)
(* return identical shanten and identical ukeire, waits and win-value      *)
(* payloads.                                                               *)
C14_Idempotent ==
  \A i, j \in Calls :
    (calls[i].pc = "done" /\ calls[j].pc = "done" /\ calls[i].text = calls[j].text) =>
      /\ calls[i].result.shanten = calls[j].result.shanten
      /\ calls[i].result.hand_value = calls[j].result.hand_value
      /\ calls[i].result.ukeire = calls[j].result.ukeire
      /\ calls[i].result.waiting_tiles = calls[j].result.waiting_tiles
      /\ calls[i].result = calls[j].result

\* the same text analysed twice with a call on another text in between
C14_Witness ==
  \E i, j, k \in Calls :
    /\ i < k /\ k < j
    /\ calls[i].pc = "done" /\ calls[k].pc = "done" /\ calls[j].pc = "done"
    /\ calls[i].text = calls[j].text
    /\ calls[k].text # calls[i].text
    /\ calls[k].result.shanten.shanten # calls[i].result.shanten.shanten
    /\ calls[i].result.ukeire # None
    /\ Len(calls[i].result.ukeire.options) > 0

ResultKeys ==
  {"hand_str", "total_tiles", "hand_components", "shanten", "hand_value", "ukeire",
   "waiting_tiles"}

(* C15, as claimed: the dictionary form of every HandAnalysisResult,       *)
(* successful or failed, contains all of the keys hand_str, total_tiles,   *)
(* hand_components, shanten, hand_value, ukeire and waiting_tiles.         *)
C15_AllKeysAlways ==
  Done => ResultKeys \subseteq DOMAIN HandAnalysisResult_to_dict(result)

(* C15, amended: the dictionary form of every successful                   *)
(* HandAnalysisResult contains success and all of the keys hand_str,       *)
(* total_tiles, hand_components, shanten, hand_value, ukeire and           *)
(* waiting_tiles, with absent data given as null or an empty list; the     *)
(* dictionary form of a failed HandAnalysisResult contains the keys        *)
(* success and error only.                                                 *)
C15_KeysBySuccess ==
  Done =>
    LET d == HandAnalysisResult_to_dict(result)
    IN IF result.success
       THEN /\ DOMAIN d = ResultKeys \cup {"success"}
            /\ result.hand_value = None => d.hand_value = None
            /\ result.ukeire = None => d.ukeire = None
            /\ d.waiting_tiles = result.waiting_tiles
       ELSE /\ DOMAIN d = {"success", "error"}
            /\ d.error = result.error

\* a successful ukeire result: hand_value is null and waiting_tiles is an empty list
C15_Witness ==
  /\ Done
  /\ result.success
  /\ result.ukeire # None
  /\ HandAnalysisResult_to_dict(result).hand_value = None
  /\ HandAnalysisResult_to_dict(result).waiting_tiles = <<>>
  /\ "ukeire" \in DOMAIN HandAnalysisResult_to_dict(result)

\* all tiles of c from kind k on split into triplets and runs
RECURSIVE AllMelds(_, _)
AllMelds(c, k) ==
  IF k >= NumKinds THEN TRUE
  ELSE IF c[k] = 0 THEN AllMelds(c, k + 1)
  ELSE \/ c[k] >= 3 /\ AllMelds([c EXCEPT ![k] = @ - 3], k)
       \/ /\ k < 3 * SuitSize
          /\ k % SuitSize <= SuitSize - 3
          /\ c[k + 1] > 0
          /\ c[k + 2] > 0
          /\ AllMelds([c EXCEPT ![k] = @ - 1, ![k + 1] = @ - 1, ![k + 2] = @ - 1], k)

FourMeldsAndPair(c) ==
  \E p \in Kinds : c[p] >= 2 /\ AllMelds([c EXCEPT ![p] = @ - 2], 0)

SevenDistinctPairs(c) == Cardinality({t \in Kinds : c[t] = 2}) = 7

ThirteenOrphans(c) ==
  /\ \A t \in TerminalHonorKinds : c[t] >= 1
  /\ \A t \in Kinds \ TerminalHonorKinds : c[t] = 0

(* C16: for every well-formed 14-tile hand the computed shanten is >= -1,  *)
(* and it is -1 exactly when the hand splits into 4 melds and a pair, or   *)
(* into seven distinct pairs, or is the thirteen-orphans shape; a hand of  *)
(* two each of seven distinct kinds has shanten -1.                        *)
C16_CompleteIffMinusOne ==
  (pc = "shanten_out" /\ Sum34(tiles_34) = 14) =>
    /\ shanten_result.success
    /\ shanten_result.shanten >= -1
    /\ shanten_result.shanten = -1 <=>
         (FourMeldsAndPair(tiles_34) \/ SevenDistinctPairs(tiles_34)
            \/ ThirteenOrphans(tiles_34))
    /\ SevenDistinctPairs(tiles_34) => shanten_result.shanten = -1

\* seven distinct pairs with no split into melds and a pair
C16_Witness ==
  /\ pc = "shanten_out"
  /\ Sum34(tiles_34) = 14
  /\ SevenDistinctPairs(tiles_34)
  /\ ~FourMeldsAndPair(tiles_34)
  /\ shanten_result.shanten = -1

\* the scoring dependency has answered and analyze_hand has returned
Scored == Done /\ dep # None /\ result.hand_value # None

(* C17: in the win-value result, is_yakuman is true exactly when the total *)
(* han returned by the scoring dependency is at least 13.                  *)
C17_YakumanIffThirteen ==
  Scored =>
    /\ result.hand_value.is_yakuman <=> (dep.kind = "ok" /\ dep.han >= 13)
    /\ result.hand_value.success => result.hand_value.han = dep.han

\* the dependency returned exactly 13 han
C17_Witness ==
  /\ Scored
  /\ dep.kind = "ok"
  /\ dep.han = 13
  /\ result.hand_value.success
  /\ result.hand_value.is_yakuman

\* analyze_hand returned the tile-count error of its last else branch
CountErrorReported == Done /\ result.error = "bad_tile_count"

Reorderings(text) ==
  UNION {S \in {FamilyTexts(Families[n]) : n \in 1 .. Min(NumFamilies, Len(Families))} :
           text \in S}

(* C19: shanten is invariant under reordering of the hand text: two texts  *)
(* that consist of the same digit+marker groups in a different order, or   *)
(* whose digits are permuted within a group, parse to the same 34-entry    *)
(* count array and get the same shanten.                                   *)
C19_OrderInvariant ==
  \A u \in Reorderings(hand_str) :
    /\ pc \in {"shanten", "dispatch"} =>
         /\ ~To34Raises(string_to_136_array(parse_hand(u)))
         /\ tiles_34 = TextCounts(u)
    /\ pc = "dispatch" => shanten_result \in ShantenOutcomes(TextCounts(u))
    /\ pc = "done" => To34Raises(string_to_136_array(parse_hand(u)))

\* a fifth copy spills to the next kind, and another text of the family differs
C19_Witness ==
  /\ pc = "dispatch"
  /\ tiles_34[0] = CopiesPerKind
  /\ tiles_34[1] = 2
  /\ shanten_result.success
  /\ \E u \in Reorderings(hand_str) : u # hand_str /\ parse_hand(u) # hand_components

(* C20: the yaku label mapping used for every YakuItem is a single table   *)
(* that is injective on its defined identifiers (no two identifiers map to *)
(* the same label) and falls back to the identifier itself for any         *)
(* identifier not in the table.                                            *)
C20_LabelTable ==
  (Scored /\ dep.kind = "ok") =>
    /\ result.hand_value.success
    /\ Len(result.hand_value.yaku) = Len(dep.yaku)
    /\ \A i \in 1 .. Len(dep.yaku) :
         LET item == result.hand_value.yaku[i]
         IN /\ item.name = dep.yaku[i].name
            /\ IF item.name \in DOMAIN YAKU_NAME_MAP
               THEN /\ item.chinese_name = YAKU_NAME_MAP[item.name]
                    /\ \A other \in DOMAIN YAKU_NAME_MAP \ {item.name} :
                         YAKU_NAME_MAP[other] # item.chinese_name
               ELSE item.chinese_name = item.name

\* an identifier the table does not have keeps its own name as the label
C20_Witness ==
  /\ Scored
  /\ dep.kind = "ok"
  /\ dep.yaku[1].name = "Kokushi Musou"
  /\ "Kokush Musou" \in DOMAIN YAKU_NAME_MAP
  /\ result.hand_value.yaku[1].chinese_name = "Kokushi Musou"

\* generate_valid_hands has returned
Generated == gen # None /\ gen.pc = "done"

(* C21: the library-refresh command generates the requested number of      *)
(* puzzle hands: generate_valid_hands(limit, output_file) with limit >= 1  *)
(* collects exactly limit hands, each accepted by analyze_hand as a        *)
(* successful complete hand with at least one yaku, saves them and reports *)
(* success.  Every run returns, so the claim is about the state at return. *)
C21_GeneratesLimitHands ==
  Generated =>
    /\ Len(gen.valid_hands) = gen.limit
    /\ gen.returned = "generate_ok"

\* the last call was check_guess on a registered game that had not ended
Guessed ==
  /\ w_ret # None
  /\ w_ret.op = "guess"
  /\ w_ret.before # None
  /\ IF w_ret.before # None THEN ~w_ret.before.completed ELSE FALSE

LastGuess(game_state) == game_state.guesses[Len(game_state.guesses)]

(* C22: the game can be won: check_guess on a guess whose tiles equal the   *)
(* target position by position is accepted, recorded with every tile      *)
(* 'correct', and sets completed = win = true.                             *)
C22_ExactGuessWins ==
  (Guessed /\ _parse_guess(w_ret.guess_str) = w_ret.before.target_tiles) =>
    /\ w_ret.raised = NoneStr
    /\ Len(w_ret.after.guesses) = Len(w_ret.before.guesses) + 1
    /\ AllCorrect(LastGuess(w_ret.after).tiles)
    /\ w_ret.after.completed
    /\ w_ret.after.win

\* the last call was start_game
Started == w_ret # None /\ w_ret.op = "start"

(* C23: at most one single game exists per game key.  All users of a group *)
(* share the key of the group and a user in private chat has a key of      *)
(* their own; start_game on a key that is registered raises and leaves the *)
(* registered game (target, guesses, completed, win) as it was.            *)
C23_OneGamePerKey ==
  /\ \A key \in DOMAIN wordle_games :
       /\ key[1] \in {"group", "private"}
       /\ key[1] = "group" => <<wordle_games[key].started_by, key[2]>> \in Senders
       /\ key[1] = "private" =>
            /\ wordle_games[key].started_by = key[2]
            /\ <<key[2], NoneStr>> \in Senders
  /\ Started =>
       /\ w_ret.game_key \in {IF sender[2] # NoneStr THEN <<"group", sender[2]>>
                              ELSE <<"private", sender[1]>> :
                              sender \in {x \in Senders : x[1] = w_ret.user_id}}
       /\ IF w_ret.before # None
          THEN w_ret.raised = "game_in_progress" /\ w_ret.after = w_ret.before
          ELSE w_ret.raised = NoneStr

\* a second user of the group starts while the game of the first is registered
C23_Witness ==
  /\ Started
  /\ w_ret.game_key = <<"group", "g1">>
  /\ w_ret.before # None
  /\ IF w_ret.before # None
     THEN w_ret.before.started_by # w_ret.user_id /\ w_ret.before.guesses # <<>>
     ELSE FALSE
  /\ w_ret.raised = "game_in_progress"
  /\ <<"private", w_ret.user_id>> \in DOMAIN wordle_games

\* the games the model holds: the registered ones and the one the last call left
KnownGames ==
  {wordle_games[key] : key \in DOMAIN wordle_games}
    \cup (IF w_ret # None /\ w_ret.op \in {"start", "guess"}
          THEN {w_ret.after} \ {None} ELSE {})

(* C24: a single game never holds more than max_attempts guesses; it is     *)
(* completed exactly when its last recorded guess is all-correct or its    *)
(* guesses reached max_attempts; win only if the last recorded guess is    *)
(* all-correct; no guess is recorded once the game is completed.           *)
C24_GameInvariants ==
  /\ \A g \in KnownGames :
       /\ Len(g.guesses) <= g.max_attempts
       /\ g.completed <=>
            \/ (g.guesses # <<>> /\ AllCorrect(LastGuess(g).tiles))
            \/ Len(g.guesses) >= g.max_attempts
       /\ g.win => (g.guesses # <<>> /\ AllCorrect(LastGuess(g).tiles))
       /\ \A k \in 1 .. (Len(g.guesses) - 1) : ~AllCorrect(g.guesses[k].tiles)
  /\ (w_ret # None /\ w_ret.op = "guess" /\ w_ret.before # None) =>
       IF w_ret.before.completed
       THEN w_ret.raised = "game_over" /\ w_ret.after = None
       ELSE w_ret.after # None

\* a game that ended without a win stays registered, and a game is won
C24_Witness ==
  /\ \E key \in DOMAIN wordle_games :
       /\ wordle_games[key].completed
       /\ ~wordle_games[key].win
       /\ Len(wordle_games[key].guesses) = wordle_games[key].max_attempts
  /\ w_ret.op = "guess"
  /\ w_ret.raised = NoneStr
  /\ w_ret.after.win
  /\ Len(w_ret.after.guesses) < w_ret.after.max_attempts

(* C25: when check_guess raises because the guess has the wrong number of  *)
(* tiles or a rejected shape, the game stays registered and its guesses,   *)
(* completed and win are unchanged: no attempt is consumed.                *)
C25_RejectedGuessKeepsGame ==
  (Guessed /\ w_ret.raised \in {"bad_length", "bad_shape"}) =>
    /\ w_ret.after = w_ret.before
    /\ Registered(wordle_games, w_ret.game_key)
    /\ wordle_games[w_ret.game_key] = w_ret.before

\* a guess of the wrong length is rejected after a guess was recorded
C25_Witness ==
  /\ Guessed
  /\ w_ret.raised = "bad_length"
  /\ IF Guessed THEN Len(w_ret.before.guesses) = 1 ELSE FALSE

\* a guess of a rejected shape
C25_WitnessShape ==
  /\ Guessed
  /\ w_ret.raised = "bad_shape"
  /\ IF Guessed THEN Len(w_ret.before.guesses) = 1 ELSE FALSE

\* the feedback of a guess has been computed
FeedbackGiven ==
  /\ w_ret # None
  /\ w_ret.op = "feedback"
  /\ IF w_ret.op = "feedback" THEN w_ret.checked ELSE FALSE

\* the positions of the feedback that show tile k as 'correct' or 'exists'
Credited(result_tiles, k) ==
  {i \in 1 .. Len(result_tiles) :
     result_tiles[i].code = k /\ result_tiles[i].status \in {"correct", "exists"}}

(* C26: the feedback respects multiplicity: a position is 'correct' iff    *)
(* guess and target agree there; for each tile kind the number of          *)
(* positions marked 'correct' or 'exists' is the smaller of its copies in  *)
(* the guess and in the target; every other position is 'wrong' and none   *)
(* stays 'unknown'.                                                        *)
C26_FeedbackMultiplicity ==
  FeedbackGiven =>
    LET guess_tiles == w_ret.guess_tiles
        target_tiles == w_ret.target_tiles
        result_tiles == w_ret.result_tiles
    IN /\ Len(result_tiles) = Len(guess_tiles)
       /\ \A i \in 1 .. Len(guess_tiles) :
            /\ result_tiles[i].code = guess_tiles[i]
            /\ result_tiles[i].status \in {"correct", "exists", "wrong"}
            /\ result_tiles[i].status = "correct" <=> guess_tiles[i] = target_tiles[i]
       /\ \A k \in FeedbackTiles :
            Cardinality(Credited(result_tiles, k))
              = Min(CountIn(guess_tiles, k), CountIn(target_tiles, k))

\* the guess holds more copies of a tile than the target, none of them in place
C26_Witness ==
  /\ FeedbackGiven
  /\ \E k \in FeedbackTiles :
       /\ CountIn(w_ret.guess_tiles, k) = 2
       /\ CountIn(w_ret.target_tiles, k) = 1
       /\ \E i, j \in 1 .. Len(w_ret.result_tiles) :
            /\ i < j
            /\ w_ret.result_tiles[i] = [code |-> k, status |-> "exists"]
            /\ w_ret.result_tiles[j] = [code |-> k, status |-> "wrong"]

\* the last call was the multi-game check_guess on a registered game that had not ended
MultiGuessed ==
  IF w_ret = None THEN FALSE
  ELSE IF w_ret.op # "multi_guess" THEN FALSE
  ELSE IF w_ret.before.multi = None THEN FALSE
  ELSE ~w_ret.before.multi.completed

\* the entry the last call appended to the guesses of the multi-game
LastEntry == w_ret.after.multi.guesses[Len(w_ret.after.multi.guesses)]

RejectedCodes == {"bad_length", "bad_shape"}

(* C27: in the multi-hand game every check_guess call on a registered game *)
(* that is not completed appends exactly one entry to the multi-game's     *)
(* guesses, also when every unsolved sub-game rejects the guess for its    *)
(* tile count or its shape: the guess consumes an attempt, the guess lists *)
(* of the rejecting sub-games stay as they were, and no sub-game error     *)
(* aborts the call.                                                        *)
C27_EveryGuessConsumesAttempt ==
  MultiGuessed =>
    /\ w_ret.raised = NoneStr
    /\ w_ret.after.multi # None
    /\ w_ret.after.multi.guesses
         = Append(w_ret.before.multi.guesses,
                  [guess_str |-> w_ret.guess_str, results |-> LastEntry.results,
                   user_id |-> w_ret.user_id])
    /\ Len(LastEntry.results) = NumGames
    /\ \A i \in 1 .. NumGames :
         LastEntry.results[i] \in RejectedCodes =>
           w_ret.after.subs[i] = w_ret.before.subs[i]

\* every sub-game rejects the second guess as it rejected the first
C27_Witness ==
  /\ MultiGuessed
  /\ \A i \in 1 .. NumGames :
       /\ LastEntry.results[i] = "bad_shape"
       /\ w_ret.after.subs[i].guesses = <<>>
  /\ Len(w_ret.after.multi.guesses) = 2

\* the same for a guess of the wrong tile count
C27_WitnessCount ==
  /\ MultiGuessed
  /\ \A i \in 1 .. NumGames : LastEntry.results[i] = "bad_length"
  /\ Len(w_ret.after.multi.guesses) = MultiMaxAttempts
  /\ w_ret.after.multi.completed

\* the sub-games of a multi-game that hold an all-correct guess
Solved(subs) ==
  {i \in 1 .. Len(subs) :
     IF subs[i] = None THEN FALSE
     ELSE \E k \in 1 .. Len(subs[i].guesses) : AllCorrect(subs[i].guesses[k].tiles)}

(* C28: after every multi-game check_guess call that records a guess,      *)
(* win_count is the number of sub-games that hold an all-correct guess and *)
(* it never decreases; a solved sub-game receives no further guess record; *)
(* completed is true iff win_count = num_games or the multi-game's guesses *)
(* reached max_attempts.                                                   *)
C28_WinCount ==
  /\ MultiGuessed =>
       /\ w_ret.after.multi.win_count = Cardinality(Solved(w_ret.after.subs))
       /\ w_ret.after.multi.win_count >= w_ret.before.multi.win_count
       /\ \A i \in Solved(w_ret.before.subs) : w_ret.after.subs[i] = w_ret.before.subs[i]
       /\ w_ret.after.multi.completed <=>
            \/ w_ret.after.multi.win_count = NumGames
            \/ Len(w_ret.after.multi.guesses) >= w_ret.after.multi.max_attempts
  /\ \A key \in DOMAIN multi_games :
       LET state == MultiOf(multi_games, sub_games, key)
       IN /\ state.multi.win_count = Cardinality(Solved(state.subs))
          /\ state.multi.completed <=>
               \/ state.multi.win_count = NumGames
               \/ Len(state.multi.guesses) >= state.multi.max_attempts

\* the last unsolved sub-game is solved with attempts left, another being skipped
C28_Witness ==
  /\ MultiGuessed
  /\ w_ret.before.multi.win_count = NumGames - 1
  /\ w_ret.after.multi.win_count = NumGames
  /\ "already_correct" \in {LastEntry.results[i] : i \in 1 .. NumGames}
  /\ w_ret.after.multi.completed
  /\ Len(w_ret.after.multi.guesses) < w_ret.after.multi.max_attempts

\* the game ends by its attempts with a sub-game unsolved
C28_WitnessAttempts ==
  /\ MultiGuessed
  /\ w_ret.after.multi.completed
  /\ w_ret.after.multi.win_count = 1
  /\ Len(w_ret.after.multi.guesses) = w_ret.after.multi.max_attempts

\* the last call was start_games
MultiStarted == IF w_ret = None THEN FALSE ELSE w_ret.op = "start_games"

\* the last call was the multi-game check_guess on a completed game
MultiEnded ==
  IF w_ret = None THEN FALSE
  ELSE IF w_ret.op # "multi_guess" THEN FALSE
  ELSE IF w_ret.before.multi = None THEN FALSE
  ELSE w_ret.before.multi.completed

\* what holds in every state of the multi-hand game
C29_Registered ==
  /\ \A key \in DOMAIN multi_games :
       ~multi_games[key].completed =>
         \A i \in 1 .. NumGames : Registered(sub_games[i], key)
  /\ MultiStarted =>
       IF w_ret.before.multi # None
       THEN w_ret.raised = "game_in_progress" /\ w_ret.after = w_ret.before
       ELSE /\ w_ret.raised \in {NoneStr, "not_enough_hands"}
            /\ w_ret.raised = NoneStr =>
                 /\ w_ret.after.multi # None
                 /\ \A i \in 1 .. NumGames : w_ret.after.subs[i] # None
  /\ MultiEnded =>
       /\ w_ret.raised = "game_over"
       /\ w_ret.after.multi = None
       /\ \A i \in 1 .. NumGames : w_ret.after.subs[i] = None
       /\ ~Registered(multi_games, w_ret.game_key)
       /\ \A i \in 1 .. NumGames : ~Registered(sub_games[i], w_ret.game_key)

\* a completed multi-game stays as it is until check_guess is called for its key
C29_StaysUntilGuess ==
  \A key \in DOMAIN multi_games :
    multi_games[key].completed =>
      \/ /\ Registered(multi_games', key)
         /\ multi_games'[key] = multi_games[key]
      \/ /\ w_ret'.op = "multi_guess"
         /\ w_ret'.game_key = key
         /\ ~Registered(multi_games', key)

(* C29: a completed multi-hand game stays registered, so start_games for   *)
(* its key raises, until the next check_guess call for the key, which      *)
(* deletes the multi-game state and the state of every sub-game of the key *)
(* and raises 'game ended'; after that call the key is free and            *)
(* start_games registers a new game when the loader yields num_games       *)
(* different hands.  While the multi-game is registered and not completed, *)
(* every sub-game has a registered state.                                  *)
C29_CompletedUntilNextGuess == []C29_Registered /\ [][C29_StaysUntilGuess]_vars

\* the check_guess call that follows the completion of a game with every sub-game solved
C29_Witness ==
  /\ MultiEnded
  /\ w_ret.before.multi.win_count = NumGames
  /\ \A i \in 1 .. NumGames : w_ret.before.subs[i] # None

\* start_games is refused on a completed game
C29_WitnessRefused ==
  /\ MultiStarted
  /\ w_ret.raised = "game_in_progress"
  /\ IF w_ret.before.multi = None THEN FALSE ELSE w_ret.before.multi.completed

====
